---- MODULE Spec2Model ----
(***************************************************************************)
(* Model of the per-session lifecycle layer of the Zendesk MCP HTTP        *)
(* server (src/src/http-server.js): bearer authentication, get-or-create   *)
(* of the per-session server/transport pair, the transport callbacks and   *)
(* the periodic stale-session sweep.                                       *)
(*                                                                         *)
(* Strings that the code inspects (the Authorization header, the token)    *)
(* are sequences of one-character strings.  Objects created with `new`     *)
(* are indices into a heap sequence, so object identity is the index.      *)
(* Time is Date.now() in milliseconds since the start of the server,       *)
(* observed on a grid of instants.  The sweep timer never fires early; it  *)
(* may fire at any instant that is at least CLEANUP_INTERVAL after start.  *)
(***************************************************************************)
EXTENDS Integers, Sequences, FiniteSets, Bags, TLC

\* ------------------------------------------------------------------ bounds
NumClientIds == 1        \* session identifiers a client may invent
MaxUuid == 1             \* calls of randomUUID() explored
MaxConnections == 2      \* cap of connectionCounter
MaxInflight == 2         \* /mcp requests suspended at the await at once
MaxCreationTick == 1     \* last timer period in which sessions are created (timed runs)

\* ------------------------------------------------------- program constants
SESSION_TIMEOUT == 30 * 60 * 1000
CLEANUP_INTERVAL == 5 * 60 * 1000

\* --------------------------------------------------------------- JS values
Undefined == <<"undefined">>
Falsy(s) == s = Undefined \/ s = <<>>
StartsWith(s, p) == Len(s) >= Len(p) /\ SubSeq(s, 1, Len(p)) = p
Substring(s, from) == SubSeq(s, from + 1, Len(s))

BearerPrefix == <<"B", "e", "a", "r", "e", "r", " ">>
GoodToken == <<"t", "k">>
BadToken == <<"t", "x">>

\* values of process.env.MCP_AUTH_TOKEN explored
TokenConfigs == {Undefined, GoodToken}

\* values of req.headers.authorization explored
AuthHeaders ==
  { Undefined,
    BearerPrefix \o GoodToken,
    BearerPrefix \o BadToken,
    GoodToken }

\* req.method: the handler tells GET from every other method; POST stands
\* for the others
Methods == {"GET", "POST"}

\* results of getClientInfo(req)
ClientInfos ==
  { [ip |-> "10.0.0.1", userAgent |-> "agent-a", host |-> "mcp"],
    [ip |-> "10.0.0.2", userAgent |-> "agent-b", host |-> "mcp"] }

\* session identifiers: chosen by a client, or produced by randomUUID()
NoHeader == <<"none", 0>>
ClientIds == {<<"client", n>> : n \in 1..NumClientIds}
Uuid(n) == <<"uuid", n>>

\* ------------------------------------------------------------ JS Map values
\* A Map is the sequence of its entries in insertion order.
MapKeys(m) == {m[i].key : i \in 1..Len(m)}
MapHas(m, k) == k \in MapKeys(m)
MapIndex(m, k) == CHOOSE i \in 1..Len(m) : m[i].key = k
MapGet(m, k) == m[MapIndex(m, k)].value
MapSet(m, k, v) ==
  IF MapHas(m, k)
    THEN [m EXCEPT ![MapIndex(m, k)] = [key |-> k, value |-> v]]
    ELSE Append(m, [key |-> k, value |-> v])
MapDelete(m, k) ==
  IF MapHas(m, k)
    THEN SubSeq(m, 1, MapIndex(m, k) - 1) \o SubSeq(m, MapIndex(m, k) + 1, Len(m))
    ELSE m

VARIABLES
  MCP_AUTH_TOKEN,      \* process.env.MCP_AUTH_TOKEN, read once at start
  sessionServers,      \* Map sessionId -> [server, transport]
  sessionClientInfo,   \* Map sessionId -> client info
  sessionTimestamps,   \* Map sessionId -> creation time
  activeConnections,   \* Set of session ids
  connectionCounter,
  servers,             \* heap of McpServer objects
  transports,          \* heap of StreamableHTTPServerTransport objects
  uuidCounter,         \* number of randomUUID() results handed out
  now,                 \* Date.now()
  inflight,            \* bag of the requests suspended at the await
  last,                \* the step that led to the current state
  credentials,         \* ZendeskClient: subdomain, email, apiToken
  frame,               \* the tool handler that is running, suspended at an await
  httpLog,             \* the axios calls issued for the running handler
  result               \* what the last handler or classification returned

\* the state of the tool layer, which the HTTP layer never touches
toolVars == <<credentials, frame, httpLog, result>>

vars == <<MCP_AUTH_TOKEN, sessionServers, sessionClientInfo, sessionTimestamps,
          activeConnections, connectionCounter, servers, transports,
          uuidCounter, now, inflight, last, toolVars>>

sessionVars == <<sessionServers, sessionClientInfo, sessionTimestamps,
                 activeConnections, connectionCounter, servers, transports>>

\* What the last step did: the operation, the HTTP status the handler
\* answered with (0: none, the transport answers), whether it created a
\* session, the client it logged and the number of sessions it cleaned.
NoClient == [ip |-> "unknown", userAgent |-> "unknown", host |-> "unknown"]

Event(op, status, created, clientInfo, cleanedCount) ==
  [op |-> op, status |-> status, created |-> created, clientInfo |-> clientInfo,
   cleanedCount |-> cleanedCount]

\* ------------------------------------------------------------ the clock
\* Instants after the start (time 0) at which the clock is observed.
Instants ==
  { CLEANUP_INTERVAL,
    SESSION_TIMEOUT,
    SESSION_TIMEOUT + 1 }

\* ------------------------------------------------------- authentication
\* authenticateRequest that checks the scheme and forgets the token
AuthenticateSchemeOnly(token, authHeader) ==
  IF Falsy(token) THEN 0
  ELSE IF Falsy(authHeader) \/ ~StartsWith(authHeader, BearerPrefix) THEN 401
  ELSE 0

\* authenticateRequest: 0 stands for next(), otherwise the status sent.
authenticateRequest(token, authHeader) ==
  IF Falsy(token) THEN 0
  ELSE IF Falsy(authHeader) \/ ~StartsWith(authHeader, BearerPrefix) THEN 401
  ELSE IF Substring(authHeader, 7) # token THEN 401
  ELSE 0

\* a middleware that answers 401 without returning, and goes on to next()
CallsNextAlways(auth) == TRUE

\* Whether the middleware hands the request to the handler: every branch
\* that answers returns before next().
CallsNext(auth) == auth = 0

\* ------------------------------------------------- the tool table
\* the registered tools that call no client operation
MetaTools == {"list_risky_tools", "list_safe_tools", "support_info"}

\* the registered tools whose handler is one client operation
ToolOperation ==
  ("list_tickets" :> "listTickets") @@
  ("list_ticket_comments" :> "listTicketComments") @@
  ("count_ticket_comments" :> "countTicketComments") @@
  ("get_ticket_comment" :> "getTicketComment") @@
  ("create_ticket" :> "createTicket") @@
  ("update_ticket" :> "updateTicket") @@
  ("list_users" :> "listUsers") @@
  ("get_user" :> "getUser") @@
  ("create_user" :> "createUser") @@
  ("update_user" :> "updateUser") @@
  ("list_organizations" :> "listOrganizations") @@
  ("get_organization" :> "getOrganization") @@
  ("create_organization" :> "createOrganization") @@
  ("update_organization" :> "updateOrganization") @@
  ("list_groups" :> "listGroups") @@
  ("get_group" :> "getGroup") @@
  ("create_group" :> "createGroup") @@
  ("update_group" :> "updateGroup") @@
  ("list_macros" :> "listMacros") @@
  ("get_macro" :> "getMacro") @@
  ("create_macro" :> "createMacro") @@
  ("update_macro" :> "updateMacro") @@
  ("delete_macro" :> "deleteMacro") @@
  ("list_views" :> "listViews") @@
  ("get_view" :> "getView") @@
  ("create_view" :> "createView") @@
  ("update_view" :> "updateView") @@
  ("list_triggers" :> "listTriggers") @@
  ("get_trigger" :> "getTrigger") @@
  ("create_trigger" :> "createTrigger") @@
  ("update_trigger" :> "updateTrigger") @@
  ("list_automations" :> "listAutomations") @@
  ("get_automation" :> "getAutomation") @@
  ("create_automation" :> "createAutomation") @@
  ("update_automation" :> "updateAutomation") @@
  ("search" :> "search") @@
  ("list_articles" :> "listArticles") @@
  ("get_article" :> "getArticle") @@
  ("create_article" :> "createArticle") @@
  ("update_article" :> "updateArticle") @@
  ("delete_article" :> "deleteArticle") @@
  ("get_talk_stats" :> "getTalkStats") @@
  ("list_chats" :> "listChats")

SingleTools == DOMAIN ToolOperation
RegisteredTools ==
  SingleTools \cup MetaTools \cup {"get_ticket", "summarize_ticket_comments"}

\* ------------------------------------------------------ object creation
\* one module-level transport handed to every session
SharedTransport(heap) == 1

\* `new StreamableHTTPServerTransport(...)`: a reference to a new heap cell.
createSessionTransport(heap) == Len(heap) + 1

\* a server taken back from the ones created before
RevivedServer(heap) == 1

\* createServer(): a reference to a new heap cell.
createServer(heap) == Len(heap) + 1

\* the transport object; its sessionIdGenerator closure captures sessionId
TransportObject(sessionId) == [sessionId |-> sessionId, initialized |-> FALSE]

\* server.resource("documentation", ...), server.resource("tool_safety", ...)
RegisteredResources == {"documentation", "tool_safety"}

\* a server that leaves the tool-listing tools out
ServerWithoutMeta(transport) ==
  [transport |-> transport, tools |-> RegisteredTools \ MetaTools,
   resources |-> RegisteredResources]

\* the server object after createServer() and server.connect(transport):
\* allTools.forEach(tool => server.tool(tool.name, ...)) and two resources
ServerObject(transport) ==
  [transport |-> transport, tools |-> RegisteredTools,
   resources |-> RegisteredResources]

\* randomUUID(): an identifier never handed out before
randomUUID(counter) == Uuid(counter + 1)

\* let sessionId = req.headers['mcp-session-id'] || randomUUID()
ResolveSessionId(header, counter) ==
  IF header = NoHeader THEN randomUUID(counter) ELSE header

\* a lookup that ignores the key and returns the oldest entry
LookupOldest(m, sessionId) ==
  IF Len(m) > 0 THEN m[1].value ELSE [server |-> 0, transport |-> 0]

\* sessionServers.get(sessionId): the entry, or "undefined"
NoSessionData == [server |-> 0, transport |-> 0]

\* a lookup that never finds the entry
LookupMisses(m, sessionId) == NoSessionData

LookupSession(m, sessionId) ==
  IF MapHas(m, sessionId) THEN MapGet(m, sessionId) ELSE NoSessionData

\* ------------------------------------------- the Zendesk client (values)
\* process.env.ZENDESK_SUBDOMAIN, ZENDESK_EMAIL, ZENDESK_API_TOKEN: each is
\* unset or holds a value; the token may also be set to the empty string.
CredentialConfigs ==
  [subdomain : {Undefined, <<"acme">>},
   email : {Undefined, <<"agent@acme">>},
   apiToken : {Undefined, <<>>, <<"secret">>}]

AllConfigured ==
  [subdomain |-> <<"acme">>, email |-> <<"agent@acme">>, apiToken |-> <<"secret">>]

\* no handler is running
NoPending == [kind |-> "none"]
\* the local variables of the handlers, before any is assigned
NoLocals ==
  [ticket |-> {}, totalCount |-> 0, maxPages |-> 0, page |-> 0,
   pages |-> <<>>, authors |-> {}]
NoFrame ==
  [tool |-> "none", args |-> <<>>, session |-> NoHeader, pc |-> "idle",
   stage |-> "none", pending |-> NoPending, ops |-> <<>>, locals |-> NoLocals]
NoResult == [kind |-> "none"]

\* ---------------------------------------------------------------- Init
\* the HTTP layer after http-server.js was loaded
HttpInit ==
  /\ MCP_AUTH_TOKEN \in TokenConfigs
  /\ sessionServers = <<>>
  /\ sessionClientInfo = <<>>
  /\ sessionTimestamps = <<>>
  /\ activeConnections = {}
  /\ connectionCounter = 0
  /\ servers = <<>>
  /\ transports = <<>>
  /\ uuidCounter = 0
  /\ now = 0
  /\ inflight = EmptyBag
  /\ last = Event("start", 0, FALSE, NoClient, 0)

\* no tool has been called yet
ToolsIdle ==
  /\ frame = NoFrame
  /\ httpLog = <<>>
  /\ result = NoResult

Init ==
  /\ HttpInit
  /\ credentials = AllConfigured
  /\ ToolsIdle

\* --------------------------------------------------------- /mcp handler
Requests ==
  [authorization : AuthHeaders,
   sessionIdHeader : {NoHeader} \cup ClientIds \cup {Uuid(n) : n \in 1..uuidCounter},
   method : Methods,
   clientInfo : ClientInfos]

\* the frame of a handler suspended at `await transport.handleRequest`
Suspended(sessionId, transport) ==
  [sessionId |-> sessionId, transport |-> transport]

\* a handler that dispatches without inserting the new pair into the map
StoreNothing(m, sessionId, isNew, sessionData) == m

\* if (!sessionData) { ... sessionServers.set(sessionId, sessionData) ... }
StoreSessionData(m, sessionId, isNew, sessionData) ==
  IF isNew THEN MapSet(m, sessionId, sessionData) ELSE m

\* a handler that records the client of every request, not only the first
StoreClientInfoAlways(m, sessionId, isNew, clientInfo) ==
  MapSet(m, sessionId, clientInfo)

\* if (!sessionData) { ... sessionClientInfo.set(sessionId, clientInfo) ... }
StoreClientInfo(m, sessionId, isNew, clientInfo) ==
  IF isNew THEN MapSet(m, sessionId, clientInfo) ELSE m

\* a handler that refreshes the timestamp on every request (idle timeout)
TouchTimestamp(m, sessionId, isNew, startTime) ==
  MapSet(m, sessionId, startTime)

\* if (!sessionData) { ... sessionTimestamps.set(sessionId, startTime) ... }
StoreTimestamp(m, sessionId, isNew, startTime) ==
  IF isNew THEN MapSet(m, sessionId, startTime) ELSE m

\* if (!sessionData) { ... connectionCounter++ ... }
CountConnection(counter, isNew) ==
  IF isNew THEN counter + 1 ELSE counter

\* a handler without the method check: GET reaches the transport too
AllowsEveryMethod(method) == FALSE

\* if (req.method === 'GET') return res.status(405).json(...)
MethodNotAllowed(method) == method = "GET"

\* How the try block of the handler ends: it runs through (the transport
\* wrote the response) or something in it throws, with a message that may
\* mention '400' or 'Bad Request', before or after the response was started.
Outcomes ==
  [thrown : BOOLEAN, mentions400 : BOOLEAN, headersSent : BOOLEAN]

\* a catch block that answers every error with 500
CatchStatusAlways500(outcome) ==
  IF ~outcome.thrown THEN 0
  ELSE IF outcome.headersSent THEN 0 ELSE 500

\* catch (error) { if (!res.headersSent) { statusCode = errorMsg.includes('400')
\* || errorMsg.includes('Bad Request') ? 400 : 500; ... } }
CatchStatus(outcome) ==
  IF ~outcome.thrown THEN 0
  ELSE IF outcome.headersSent THEN 0
  ELSE IF outcome.mentions400 THEN 400 ELSE 500

\* The handler run in which the creation of the pair throws (createServer or
\* createSessionTransport, lines 427-428): nothing was stored and no
\* response was started, and the catch block answers.
CreationThrows(req, outcome) ==
  LET auth == authenticateRequest(MCP_AUTH_TOKEN, req.authorization)
      sessionId == ResolveSessionId(req.sessionIdHeader, uuidCounter)
      generated == req.sessionIdHeader = NoHeader
      isNew == LookupSession(sessionServers, sessionId) = NoSessionData
  IN /\ outcome.thrown /\ ~outcome.headersSent
     /\ CallsNext(auth)
     /\ ~MethodNotAllowed(req.method)
     /\ isNew
     /\ generated => uuidCounter < MaxUuid
     /\ uuidCounter' = IF generated THEN uuidCounter + 1 ELSE uuidCounter
     /\ last' = Event("request", CatchStatus(outcome), FALSE, NoClient, 0)
     /\ UNCHANGED <<MCP_AUTH_TOKEN, toolVars, sessionVars, now, inflight>>

\* The synchronous part of app.all('/mcp', authenticateRequest, handler),
\* up to the await on transport.handleRequest.
McpRequest(req) ==
  LET auth == authenticateRequest(MCP_AUTH_TOKEN, req.authorization)
      sessionId == ResolveSessionId(req.sessionIdHeader, uuidCounter)
      generated == req.sessionIdHeader = NoHeader
      startTime == now
      existing == LookupSession(sessionServers, sessionId)
      isNew == existing = NoSessionData
      sessionData ==
        IF isNew
          THEN [server |-> createServer(servers),
                transport |-> createSessionTransport(transports)]
          ELSE existing
  IN
  IF ~CallsNext(auth)
    THEN /\ last' = Event("request", auth, FALSE, NoClient, 0)
         /\ UNCHANGED <<MCP_AUTH_TOKEN, toolVars, sessionVars, uuidCounter, now,
                        inflight>>
  ELSE
    /\ generated => uuidCounter < MaxUuid
    /\ uuidCounter' = IF generated THEN uuidCounter + 1 ELSE uuidCounter
    /\ IF MethodNotAllowed(req.method)
         THEN /\ last' = Event("request", IF auth # 0 THEN auth ELSE 405,
                               FALSE, NoClient, 0)
              /\ UNCHANGED <<MCP_AUTH_TOKEN, toolVars, sessionVars, now, inflight>>
       ELSE
         /\ BagCardinality(inflight) < MaxInflight
         /\ isNew => connectionCounter < MaxConnections
         /\ last' = Event("request", auth, isNew, req.clientInfo, 0)
         /\ servers' =
              IF isNew THEN Append(servers, ServerObject(sessionData.transport))
                       ELSE servers
         /\ transports' =
              IF isNew THEN Append(transports, TransportObject(sessionId))
                       ELSE transports
         /\ sessionServers' =
              StoreSessionData(sessionServers, sessionId, isNew, sessionData)
         /\ sessionClientInfo' =
              StoreClientInfo(sessionClientInfo, sessionId, isNew, req.clientInfo)
         /\ sessionTimestamps' =
              StoreTimestamp(sessionTimestamps, sessionId, isNew, startTime)
         /\ connectionCounter' = CountConnection(connectionCounter, isNew)
         /\ inflight' =
              inflight (+) SetToBag({Suspended(sessionId, sessionData.transport)})
         /\ UNCHANGED <<MCP_AUTH_TOKEN, toolVars, activeConnections, now>>

\* ------------------------------------------------- transport callbacks
\* onsessioninitialized(actualSessionId): a transport that is handling a
\* request initializes its session; actualSessionId is the result of its
\* sessionIdGenerator.
OnSessionInitialized(r) ==
  LET t == r.transport
      actualSessionId == transports[t].sessionId
  IN /\ BagIn(r, inflight)
     /\ ~transports[t].initialized
     /\ transports' = [transports EXCEPT ![t].initialized = TRUE]
     /\ activeConnections' = activeConnections \cup {actualSessionId}
     /\ last' = Event("initialized", 0, FALSE, NoClient, 0)
     /\ UNCHANGED <<MCP_AUTH_TOKEN, toolVars, sessionServers, sessionClientInfo,
                    sessionTimestamps, connectionCounter, servers,
                    uuidCounter, now, inflight>>

\* an onsessionclosed that forgets the timestamp map
OnSessionClosedKeepsTimestamp(r) ==
  LET t == r.transport
      actualSessionId == transports[t].sessionId
  IN /\ BagIn(r, inflight)
     /\ transports[t].initialized
     /\ activeConnections' = activeConnections \ {actualSessionId}
     /\ sessionServers' = MapDelete(sessionServers, actualSessionId)
     /\ sessionClientInfo' = MapDelete(sessionClientInfo, actualSessionId)
     /\ last' = Event("closed", 0, FALSE, NoClient, 0)
     /\ UNCHANGED <<MCP_AUTH_TOKEN, toolVars, sessionTimestamps, connectionCounter,
                    servers, transports, uuidCounter, now, inflight>>

\* onsessionclosed(actualSessionId): a transport that is handling a request
\* terminates its initialized session.
OnSessionClosed(r) ==
  LET t == r.transport
      actualSessionId == transports[t].sessionId
  IN /\ BagIn(r, inflight)
     /\ transports[t].initialized
     /\ activeConnections' = activeConnections \ {actualSessionId}
     /\ sessionServers' = MapDelete(sessionServers, actualSessionId)
     /\ sessionClientInfo' = MapDelete(sessionClientInfo, actualSessionId)
     /\ sessionTimestamps' = MapDelete(sessionTimestamps, actualSessionId)
     /\ last' = Event("closed", 0, FALSE, NoClient, 0)
     /\ UNCHANGED <<MCP_AUTH_TOKEN, toolVars, connectionCounter, servers, transports,
                    uuidCounter, now, inflight>>

\* a continuation that stores its session again when the dispatch settles
ReturnStoresAgain(r, outcome) ==
  /\ BagIn(r, inflight)
  /\ ~outcome.thrown => (~outcome.mentions400 /\ outcome.headersSent)
  /\ inflight' = inflight (-) SetToBag({r})
  /\ sessionServers' =
       MapSet(sessionServers, r.sessionId,
              [server |-> CHOOSE i \in 1..Len(servers) :
                            servers[i].transport = r.transport,
               transport |-> r.transport])
  /\ sessionClientInfo' = MapSet(sessionClientInfo, r.sessionId, NoClient)
  /\ sessionTimestamps' = MapSet(sessionTimestamps, r.sessionId, now)
  /\ last' = Event("return", CatchStatus(outcome), FALSE, NoClient, 0)
  /\ UNCHANGED <<MCP_AUTH_TOKEN, toolVars, activeConnections, connectionCounter,
                 servers, transports, uuidCounter, now>>

\* await sessionData.transport.handleRequest(...) settles; the rest of the
\* handler is the catch block.
RequestReturn(r, outcome) ==
  /\ BagIn(r, inflight)
  /\ ~outcome.thrown => (~outcome.mentions400 /\ outcome.headersSent)
  /\ inflight' = inflight (-) SetToBag({r})
  /\ last' = Event("return", CatchStatus(outcome), FALSE, NoClient, 0)
  /\ UNCHANGED <<MCP_AUTH_TOKEN, toolVars, sessionVars, uuidCounter, now>>

\* ----------------------------------------------------------- the sweep
\* a staleness test that already fires at an age of exactly SESSION_TIMEOUT
IsStaleAtTimeout(time, timestamp) == time - timestamp >= SESSION_TIMEOUT

\* if (now - timestamp > SESSION_TIMEOUT)
IsStale(time, timestamp) == time - timestamp > SESSION_TIMEOUT

\* a sweep that frees the bookkeeping of a stale session but leaves its
\* server and transport in the session map
EvictKeepsServer(st, sessionId) ==
  [activeConnections |-> st.activeConnections \ {sessionId},
   sessionServers |-> st.sessionServers,
   sessionClientInfo |-> MapDelete(st.sessionClientInfo, sessionId),
   sessionTimestamps |-> MapDelete(st.sessionTimestamps, sessionId),
   cleanedCount |-> st.cleanedCount + 1]

\* the body of the if in the loop of cleanupStaleSessions
Evict(st, sessionId) ==
  [activeConnections |-> st.activeConnections \ {sessionId},
   sessionServers |-> MapDelete(st.sessionServers, sessionId),
   sessionClientInfo |-> MapDelete(st.sessionClientInfo, sessionId),
   sessionTimestamps |-> MapDelete(st.sessionTimestamps, sessionId),
   cleanedCount |-> st.cleanedCount + 1]

\* an index-based loop over a list that shrinks under it: after a deletion
\* the entry that moved into the freed slot is skipped
SkipAfterDelete(i, deleted) == IF deleted THEN i + 2 ELSE i + 1

\* next entry visited by the Map iterator after entry i was handled
NextEntry(i, deleted) == i + 1

\* for (const [sessionId, timestamp] of sessionTimestamps) { ... }
\* entries is the Map as it was when the loop started: the iterator is
\* live, and the loop deletes only the entry it is visiting.
RECURSIVE CleanupLoop(_, _, _, _)
CleanupLoop(entries, i, time, st) ==
  IF i > Len(entries) THEN st
  ELSE IF IsStale(time, entries[i].value)
    THEN CleanupLoop(entries, NextEntry(i, TRUE), time, Evict(st, entries[i].key))
    ELSE CleanupLoop(entries, NextEntry(i, FALSE), time, st)

cleanupStaleSessions(time) ==
  CleanupLoop(sessionTimestamps, 1, time,
              [activeConnections |-> activeConnections,
               sessionServers |-> sessionServers,
               sessionClientInfo |-> sessionClientInfo,
               sessionTimestamps |-> sessionTimestamps,
               cleanedCount |-> 0])

\* The setInterval callback runs: health report (logging only), then
\* cleanupStaleSessions.  Its first run is CLEANUP_INTERVAL after the start
\* (time 0) at the earliest.
Sweep ==
  LET st == cleanupStaleSessions(now)
  IN /\ now >= CLEANUP_INTERVAL
     /\ activeConnections' = st.activeConnections
     /\ sessionServers' = st.sessionServers
     /\ sessionClientInfo' = st.sessionClientInfo
     /\ sessionTimestamps' = st.sessionTimestamps
     /\ last' = Event("sweep", 0, FALSE, NoClient, st.cleanedCount)
     /\ UNCHANGED <<MCP_AUTH_TOKEN, toolVars, connectionCounter, servers, transports,
                    uuidCounter, now, inflight>>

\* Time passes.
Tick(t) ==
  /\ t \in Instants
  /\ t > now
  /\ now' = t
  /\ last' = Event("tick", 0, FALSE, NoClient, 0)
  /\ UNCHANGED <<MCP_AUTH_TOKEN, toolVars, sessionVars, uuidCounter, inflight>>

InFlight == BagToSet(inflight)

Next ==
  \/ \E req \in Requests : McpRequest(req)
  \/ \E req \in Requests, outcome \in Outcomes : CreationThrows(req, outcome)
  \/ \E r \in InFlight : OnSessionInitialized(r)
  \/ \E r \in InFlight : OnSessionClosed(r)
  \/ \E r \in InFlight, outcome \in Outcomes : RequestReturn(r, outcome)
  \/ Sweep
  \/ \E t \in Instants : Tick(t)

Spec == Init /\ [][Next]_vars

\* The request handler alone: requests arrive and their dispatch settles,
\* while the clock stands still and the transports signal nothing.
HandlerNext ==
  \/ \E req \in Requests : McpRequest(req)
  \/ \E req \in Requests, outcome \in Outcomes : CreationThrows(req, outcome)
  \/ \E r \in InFlight, outcome \in Outcomes : RequestReturn(r, outcome)

HandlerSpec == Init /\ [][HandlerNext]_vars

\* ------------------------------------------------ the periodic timer
\* setInterval(callback, CLEANUP_INTERVAL) with a timer that is never late:
\* the callback runs at every multiple of CLEANUP_INTERVAL after the start.
\* Sessions are created up to tick MaxCreationTick, and the clock runs on
\* until the last of them is due to be swept.
TicksToEvict == SESSION_TIMEOUT \div CLEANUP_INTERVAL + 1
LastCreation == MaxCreationTick * CLEANUP_INTERVAL + 1
Horizon == (MaxCreationTick + TicksToEvict) * CLEANUP_INTERVAL

TimerInstants ==
  {k * CLEANUP_INTERVAL + 1 : k \in 0..MaxCreationTick}
    \cup {k * CLEANUP_INTERVAL : k \in 1..(MaxCreationTick + TicksToEvict)}

\* the next instant at which the interval timer fires
NextDue(time) == (time \div CLEANUP_INTERVAL + 1) * CLEANUP_INTERVAL

\* the clock has reached a multiple of CLEANUP_INTERVAL and the callback of
\* the timer has not run yet
TimerDue == now > 0 /\ now % CLEANUP_INTERVAL = 0 /\ last.op = "tick"

\* Time passes, but never beyond the instant at which the timer fires next.
TimerTick(t) ==
  /\ t \in TimerInstants
  /\ t > now
  /\ t <= NextDue(now)
  /\ \A u \in TimerInstants : ~(now < u /\ u < t)
  /\ now' = t
  /\ last' = Event("tick", 0, FALSE, NoClient, 0)
  /\ UNCHANGED <<MCP_AUTH_TOKEN, toolVars, sessionVars, uuidCounter, inflight>>

TimedNext ==
  \/ TimerDue /\ Sweep
  \/ /\ ~TimerDue
     /\ now <= LastCreation
     /\ BagCardinality(inflight) = 0
     /\ \E req \in Requests : McpRequest(req)
  \/ ~TimerDue /\ \E r \in InFlight : OnSessionInitialized(r)
  \/ ~TimerDue /\ \E r \in InFlight : OnSessionClosed(r)
  \/ ~TimerDue /\ \E r \in InFlight, outcome \in Outcomes : RequestReturn(r, outcome)
  \/ ~TimerDue /\ \E t \in TimerInstants : TimerTick(t)

\* the timer fires when it is due, and time advances
TimedSpec ==
  /\ Init
  /\ [][TimedNext]_vars
  /\ WF_vars(TimerDue /\ Sweep)
  /\ WF_vars(~TimerDue /\ \E t \in TimerInstants : TimerTick(t))

\* ===================================================================
\* The tool layer
\* ===================================================================
Min(S) == CHOOSE x \in S : \A y \in S : x <= y

RECURSIVE SumSeq(_)
SumSeq(s) == IF s = <<>> THEN 0 ELSE s[1] + SumSeq(Tail(s))

\* Math.ceil(a / b) for integers a and b > 0
Ceil(a, b) == (a + b - 1) \div b

\* `needle` occurs in `text` (both are sequences of string pieces)
Contains(text, needle) ==
  \E i \in 1..(Len(text) - Len(needle) + 1) :
    SubSeq(text, i, i + Len(needle) - 1) = needle

\* ------------------------------------------------ ZendeskClient.request
ConfigMessage ==
  <<"Zendesk credentials not configured. Please set environment variables.">>

\* a client that only looks at the subdomain
CredentialsOnlySubdomain(c) == Falsy(c.subdomain)

\* if (!this.subdomain || !this.email || !this.apiToken)
CredentialsMissing(c) ==
  Falsy(c.subdomain) \/ Falsy(c.email) \/ Falsy(c.apiToken)

\* a client that goes to the network without looking at the credentials
RequestUnchecked(c) == [kind |-> "http"]

\* request(), up to the await on axios: it throws the configuration error
\* (caught and rethrown by its own catch, there is no error.response) or
\* issues the one axios call
Request(c) ==
  IF CredentialsMissing(c)
    THEN [kind |-> "throw", message |-> ConfigMessage]
    ELSE [kind |-> "http"]

\* response bodies, as far as the handlers look into them
Null == [kind |-> "null"]
Body == [kind |-> "body"]

\* how the axios call ends: 2xx with a body, a response with another
\* status, or no response at all
Ok(data) == [kind |-> "2xx", data |-> data]
HttpFailures ==
  {[kind |-> "status", status |-> "404", body |-> "{\"error\":\"RecordNotFound\"}"],
   [kind |-> "status", status |-> "500", body |-> "{}"],
   [kind |-> "network", message |-> <<"connect ECONNREFUSED">>]}

Returned(data) == [kind |-> "return", data |-> data]
Thrown(message) == [kind |-> "throw", message |-> message]

\* request(), after the await: return response.data, or the catch block
RequestSettle(outcome) ==
  IF outcome.kind = "2xx" THEN Returned(outcome.data)
  ELSE IF outcome.kind = "status"
    THEN Thrown(<<"Zendesk API Error: ", outcome.status, " - ", outcome.body>>)
  ELSE Thrown(outcome.message)

\* ------------------------------------------------------ tool handlers
\* the handlers that read a property of the response body
Dereferences(tool) ==
  tool \in {"list_ticket_comments", "count_ticket_comments", "get_ticket_comment"}

TypeErrorMessage == <<"Cannot read properties of null">>

\* return { content: [{ type: "text", text: ... }] }
SuccessPayload(tool, fetched) ==
  [kind |-> "payload", isError |-> FALSE, text |-> <<tool, "result">>,
   fetched |-> fetched]

\* a catch block that hides what went wrong
ErrorPayloadGeneric(tool, message) ==
  [kind |-> "payload", isError |-> TRUE, text |-> <<"Error ", tool>>,
   fetched |-> 0]

\* catch (error) { return { content: [{ type: "text",
\*   text: `Error ...: ${error.message}` }], isError: true } }
ErrorPayload(tool, message) ==
  [kind |-> "payload", isError |-> TRUE,
   text |-> <<"Error ", tool, ": ">> \o message, fetched |-> 0]

\* a parameter, or its default when the caller left it out
Param(args, name, default) ==
  IF name \in DOMAIN args THEN args[name] ELSE default

\* what a handler does next: call a client operation, or return
Call(op, data, stage, locals) ==
  [kind |-> "call", op |-> op, data |-> data, stage |-> stage,
   locals |-> locals]
Done(locals, payload) ==
  [kind |-> "done", payload |-> payload, locals |-> locals]


\* ---------------------------------------------------- update handlers
\* the optional parameters of each update_* handler (all but the id)
UpdateFields ==
  ("update_ticket" :> {"subject", "comment", "priority", "status",
                       "assignee_id", "group_id", "type", "tags",
                       "custom_fields"}) @@
  ("update_user" :> {"name", "email", "role", "phone", "organization_id",
                     "tags", "notes"}) @@
  ("update_organization" :> {"name", "domain_names", "details", "notes",
                             "tags"}) @@
  ("update_group" :> {"name", "description"}) @@
  ("update_macro" :> {"title", "description", "actions"}) @@
  ("update_article" :> {"title", "body", "locale", "draft",
                        "permission_group_id", "user_segment_id",
                        "label_names"}) @@
  ("update_view" :> {"title", "description", "conditions"}) @@
  ("update_trigger" :> {"title", "description", "conditions", "actions"}) @@
  ("update_automation" :> {"title", "description", "conditions", "actions"})

UpdateTools == DOMAIN UpdateFields

\* argument values: a string (or number) and an array
Str(v) == [string |-> v]
Arr(a) == [array |-> a]

\* a builder that copies every supplied field
CopiesAlways(tool, field, value) == TRUE

\* if (field !== undefined) ...; update_ticket adds
\* `&& custom_fields.length > 0` for custom_fields
Copies(tool, field, value) ==
  IF tool = "update_ticket" /\ field = "custom_fields"
    THEN Len(value.array) > 0
    ELSE TRUE

\* data.field = field; update_ticket sets ticketData.comment = { body: comment }
FieldValue(tool, field, value) ==
  IF tool = "update_ticket" /\ field = "comment"
    THEN [body |-> value]
    ELSE value

\* the chain of `if (x !== undefined) data.x = x` of an update handler
BuildUpdate(tool, args) ==
  [f \in {g \in DOMAIN args \cap UpdateFields[tool] : Copies(tool, g, args[g])}
     |-> FieldValue(tool, f, args[f])]

\* the argument a handler passes to its client operation
OperationData(tool, args) ==
  IF tool \in UpdateTools THEN BuildUpdate(tool, args) ELSE <<>>

\* ------------------------------------------------------- get_ticket
\* the ids of a ticket that get_ticket resolves to names, in this order
AuxOrder == <<"requester_id", "assignee_id", "group_id">>
AuxOperation(field) == IF field = "group_id" THEN "getGroup" ELSE "getUser"
AuxIndex(field) == CHOOSE i \in 1..Len(AuxOrder) : AuxOrder[i] = field

\* the next `if (ticket.x_id) { try { await ... } catch {} }` whose id is set
NextAux(ticket, from) ==
  LET rest == {i \in from..Len(AuxOrder) : AuxOrder[i] \in ticket}
  IN IF rest = {} THEN 0 ELSE Min(rest)

GetTicketLookups(locals, from) ==
  LET i == NextAux(locals.ticket, from)
  IN IF i = 0
       THEN Done(locals, SuccessPayload("get_ticket", 0))
       ELSE Call(AuxOperation(AuxOrder[i]), <<>>, AuxOrder[i], locals)

\* ----------------------------------------- summarize_ticket_comments
perPage == 100
DefaultMaxComments == 1000

\* Math.min(Math.ceil(totalCount / perPage), Math.ceil(max_comments / perPage))
MaxPages(totalCount, max_comments) ==
  LET a == Ceil(totalCount, perPage)
      b == Ceil(max_comments, perPage)
  IN IF a <= b THEN a ELSE b

\* for (let page = 1; page <= maxPages; page++)
Continues(page, maxPages) == page <= maxPages

\* a loop that ignores short pages
BreaksNever(length) == FALSE

\* if (comments.length < perPage) break
Breaks(length) == length < perPage

\* allComments.length after the loop: every fetched page is kept whole
Collected(pages, max_comments) == SumSeq(pages)

ListPage(page, locals) ==
  Call("listTicketComments", [per_page |-> perPage, page |-> page], "page",
       [locals EXCEPT !.page = page])

\* after the loop: one getUser per distinct author if include_author_info,
\* each in its own try/catch, then the summary
SummarizeAuthors(args, locals) ==
  IF Param(args, "include_author_info", TRUE) /\ locals.authors # {}
    THEN Call("getUser", Min(locals.authors), "author", locals)
    ELSE Done(locals, SuccessPayload("summarize_ticket_comments",
                Collected(locals.pages,
                          Param(args, "max_comments", DefaultMaxComments))))

\* ------------------------------------------------------ handler steps
\* handlers that all start like get_ticket, with its name lookups
BeginWithLookups(tool, args) == Call("getTicket", <<>>, "ticket", NoLocals)

\* the handler from its first statement to its first await or its return
Begin(tool, args) ==
  IF tool \in MetaTools THEN Done(NoLocals, SuccessPayload(tool, 0))
  ELSE IF tool = "get_ticket" THEN Call("getTicket", <<>>, "ticket", NoLocals)
  ELSE IF tool = "summarize_ticket_comments"
    THEN Call("countTicketComments", <<>>, "count", NoLocals)
  ELSE Call(ToolOperation[tool], OperationData(tool, args), "single", NoLocals)

\* the handler from the await that settled with r to its next await or return
Resume(f, r) ==
  LET tool == f.tool
      locals == f.locals
      failed == r.kind = "throw"
      null == ~failed /\ r.data.kind = "null"
  IN
  CASE f.stage = "single" ->
         IF failed THEN Done(locals, ErrorPayload(tool, r.message))
         ELSE IF Dereferences(tool) /\ null
           THEN Done(locals, ErrorPayload(tool, TypeErrorMessage))
         ELSE Done(locals, SuccessPayload(tool, 0))
    [] f.stage = "ticket" ->
         IF failed THEN Done(locals, ErrorPayload(tool, r.message))
         ELSE IF null THEN Done(locals, ErrorPayload(tool, TypeErrorMessage))
         ELSE IF Param(f.args, "include_names", TRUE)
           THEN GetTicketLookups([locals EXCEPT !.ticket = r.data.ids], 1)
         ELSE Done(locals, SuccessPayload(tool, 0))
    [] f.stage \in {"requester_id", "assignee_id", "group_id"} ->
         \* the inner catch swallows a failed lookup
         GetTicketLookups(locals, AuxIndex(f.stage) + 1)
    [] f.stage = "count" ->
         IF failed THEN Done(locals, ErrorPayload(tool, r.message))
         ELSE IF null THEN Done(locals, ErrorPayload(tool, TypeErrorMessage))
         ELSE LET counted ==
                    [locals EXCEPT
                       !.totalCount = r.data.value,
                       !.maxPages =
                          MaxPages(r.data.value,
                                   Param(f.args, "max_comments",
                                         DefaultMaxComments))]
              IN IF Continues(1, counted.maxPages)
                   THEN ListPage(1, counted)
                   ELSE SummarizeAuthors(f.args, counted)
    [] f.stage = "page" ->
         IF failed THEN Done(locals, ErrorPayload(tool, r.message))
         ELSE IF null THEN Done(locals, ErrorPayload(tool, TypeErrorMessage))
         ELSE LET pushed ==
                    [locals EXCEPT
                       !.pages = Append(@, r.data.length),
                       !.authors = @ \cup r.data.authors]
              IN IF ~Breaks(r.data.length)
                    /\ Continues(locals.page + 1, locals.maxPages)
                   THEN ListPage(locals.page + 1, pushed)
                   ELSE SummarizeAuthors(f.args, pushed)
    [] f.stage = "author" ->
         SummarizeAuthors(f.args,
                          [locals EXCEPT !.authors = @ \ {Min(@)}])

\* ------------------------------------------------------- tool actions
MaxAuthors == 2          \* distinct comment authors the upstream knows

AuthorIds == 1..MaxAuthors
Totals == {0, 25, 100, 250}          \* counts the upstream declares
PageLengths == {0, 25, 50, 100}      \* comments the upstream puts in a page

TicketBodies ==
  {[kind |-> "ticket", ids |-> S] :
     S \in SUBSET {AuxOrder[i] : i \in 1..Len(AuxOrder)}}
CountBodies == {[kind |-> "count", value |-> t] : t \in Totals}
PageBodies ==
  {[kind |-> "page", length |-> n, authors |-> A] :
     n \in PageLengths, A \in SUBSET AuthorIds} 

\* what the upstream can answer to the call a handler waits for
ResponseBodies(stage) ==
  CASE stage = "single" -> {Null, Body}
    [] stage = "ticket" -> {Null} \cup TicketBodies
    [] stage = "count" -> {Null} \cup CountBodies
    [] stage = "page" ->
         {Null} \cup {b \in PageBodies : (b.length = 0) <=> (b.authors = {})}
    [] OTHER -> {Body}

HttpOutcomes(stage) == {Ok(b) : b \in ResponseBodies(stage)} \cup HttpFailures

NewFrame(tool, args, session) ==
  [NoFrame EXCEPT !.tool = tool, !.args = args, !.session = session]

ToolEvent == Event("tool", 0, FALSE, NoClient, 0)

\* the handler f runs its next stretch: it returns, or calls a client
\* operation, whose request() fails at once or issues one axios call
Advance(f, log, step) ==
  IF step.kind = "done"
    THEN /\ frame' = [f EXCEPT !.pc = "done", !.stage = "end",
                               !.pending = NoPending,
                               !.locals = step.locals]
         /\ httpLog' = log
         /\ result' = step.payload
    ELSE LET ops == Append(f.ops, [op |-> step.op, data |-> step.data])
             pending == Request(credentials)
         IN /\ frame' = [f EXCEPT !.pc = "awaiting", !.stage = step.stage,
                                  !.pending = pending, !.ops = ops,
                                  !.locals = step.locals]
            /\ httpLog' = IF pending.kind = "http"
                            THEN Append(log, Len(ops)) ELSE log
            /\ result' = NoResult

\* server.tool(name, schema, handler): a tools/call request of a session
\* runs the handler up to its first await
CallTool(inv, session) ==
  /\ frame.pc \in {"idle", "done"}
  /\ Advance(NewFrame(inv.tool, inv.args, session), <<>>,
             Begin(inv.tool, inv.args))
  /\ last' = ToolEvent
  /\ UNCHANGED <<MCP_AUTH_TOKEN, credentials, sessionVars, uuidCounter, now,
                 inflight>>

\* the axios call settles and the handler goes on
HttpResponse(outcome) ==
  /\ frame.pc = "awaiting"
  /\ frame.pending.kind = "http"
  /\ outcome \in HttpOutcomes(frame.stage)
  /\ Advance(frame, httpLog, Resume(frame, RequestSettle(outcome)))
  /\ last' = ToolEvent
  /\ UNCHANGED <<MCP_AUTH_TOKEN, credentials, sessionVars, uuidCounter, now,
                 inflight>>

\* the promise of request() is rejected with the configuration error
Rejected ==
  /\ frame.pc = "awaiting"
  /\ frame.pending.kind = "throw"
  /\ Advance(frame, httpLog, Resume(frame, Thrown(frame.pending.message)))
  /\ last' = ToolEvent
  /\ UNCHANGED <<MCP_AUTH_TOKEN, credentials, sessionVars, uuidCounter, now,
                 inflight>>

AllOutcomes ==
  UNION {HttpOutcomes(s) : s \in {"single", "ticket", "count", "page", "author"}}

\* ---------------------------------------- tools called over a session
\* every registered tool, with its optional switches on and off
ClientInvocations ==
  {[tool |-> t, args |-> <<>>] : t \in RegisteredTools}
  \cup {[tool |-> "get_ticket", args |-> [include_names |-> FALSE]],
        [tool |-> "summarize_ticket_comments",
         args |-> [include_author_info |-> FALSE]],
        [tool |-> "update_ticket", args |-> [custom_fields |-> Arr(<<>>)]],
        [tool |-> "update_user", args |-> [name |-> Str("Ann")]]}

ClientInit ==
  /\ HttpInit
  /\ credentials \in CredentialConfigs
  /\ ToolsIdle

ClientNext ==
  \/ \E req \in Requests : BagCardinality(inflight) = 0 /\ McpRequest(req)
  \/ \E inv \in ClientInvocations, r \in InFlight : CallTool(inv, r.sessionId)
  \/ \E outcome \in AllOutcomes : HttpResponse(outcome)
  \/ Rejected

\* every call that was issued settles, one way or another
ToolFairness ==
  /\ WF_vars(\E outcome \in AllOutcomes : HttpResponse(outcome))
  /\ WF_vars(Rejected)

ClientSpec == ClientInit /\ [][ClientNext]_vars /\ ToolFairness

\* ------------------------------------------- the update tools called
\* the parameters whose value is an array
ArrayFields == {"tags", "custom_fields", "domain_names", "label_names"}

\* the caller supplies the fields of S, those of `empty` as empty arrays
Supplied(S, empty) ==
  [f \in S |-> IF f \in empty THEN Arr(<<>>)
               ELSE IF f \in ArrayFields THEN Arr(<<Str("a")>>)
               ELSE Str("x")]

\* every update_* tool with every subset of its optional parameters
UpdateInvocations ==
  UNION {UNION {{[tool |-> t, args |-> Supplied(S, empty)] :
                   empty \in SUBSET (S \cap ArrayFields)} :
                S \in SUBSET UpdateFields[t]} :
         t \in UpdateTools}

UpdateInit ==
  /\ HttpInit
  /\ credentials \in {AllConfigured, [AllConfigured EXCEPT !.apiToken = Undefined]}
  /\ ToolsIdle

\* the first tool call of a process, over stdio
UpdateNext ==
  \/ \E inv \in UpdateInvocations : frame.pc = "idle" /\ CallTool(inv, NoHeader)
  \/ \E outcome \in HttpOutcomes("single") : HttpResponse(outcome)
  \/ Rejected

UpdateSpec == UpdateInit /\ [][UpdateNext]_vars /\ ToolFairness

\* ------------------------------------ summarize_ticket_comments called
\* the values of max_comments that callers supply
MaxCommentsChoices == {0, 10, 100, 101, 250}

SummarizeArgs ==
  {<<>>, [include_author_info |-> FALSE]}
  \cup {[max_comments |-> m] : m \in MaxCommentsChoices}
  \cup {[max_comments |-> m, include_author_info |-> FALSE] :
          m \in MaxCommentsChoices}

SummarizeInvocations ==
  {[tool |-> "summarize_ticket_comments", args |-> a] : a \in SummarizeArgs}

SummarizeNext ==
  \/ \E inv \in SummarizeInvocations : CallTool(inv, NoHeader)
  \/ \E outcome \in AllOutcomes : HttpResponse(outcome)
  \/ Rejected

SummarizeSpec == UpdateInit /\ [][SummarizeNext]_vars /\ ToolFairness

\* ------------------------------------------------- risk classification
\* the name prefixes the code looks for, as character sequences
CreatePrefix == <<"c", "r", "e", "a", "t", "e", "_">>
UpdatePrefix == <<"u", "p", "d", "a", "t", "e", "_">>
DeletePrefix == <<"d", "e", "l", "e", "t", "e", "_">>

\* a pattern without the ^ anchor: it matches anywhere in the name
TestAnywhere(prefix, toolName) == Contains(toolName, prefix)

\* /^prefix/.test(toolName); the patterns are built anew at every call
\* and carry no flag, so a test leaves nothing behind
Test(prefix, toolName) == StartsWith(toolName, prefix)

riskyPatterns == <<CreatePrefix, UpdatePrefix, DeletePrefix>>

\* riskyPatterns.some(pattern => pattern.test(toolName))
isRiskyTool(toolName) ==
  \E i \in 1..Len(riskyPatterns) : Test(riskyPatterns[i], toolName)

getToolRiskInfo(toolName, description) ==
  IF isRiskyTool(toolName)
    THEN LET riskType ==
               IF StartsWith(toolName, DeletePrefix) THEN "HIGH RISK"
               ELSE IF StartsWith(toolName, CreatePrefix) THEN "MODERATE RISK"
               ELSE "MODERATE RISK"
         IN [isRisky |-> TRUE, riskLevel |-> riskType,
             prefix |-> <<"! ", riskType, ": ">>]
    ELSE [isRisky |-> FALSE, riskLevel |-> "SAFE",
          prefix |-> <<"SAFE (Read-only): ">>]

\* tool names: the registered kinds, and names that only resemble them
ToolNames ==
  {<<"c", "r", "e", "a", "t", "e", "_", "t", "i", "c", "k", "e", "t">>,
   <<"u", "p", "d", "a", "t", "e", "_", "t", "i", "c", "k", "e", "t">>,
   <<"d", "e", "l", "e", "t", "e", "_", "t", "i", "c", "k", "e", "t">>,
   <<"d", "e", "l", "e", "t", "e", "_", "m", "a", "c", "r", "o">>,
   <<"c", "r", "e", "a", "t", "e", "_", "u", "s", "e", "r">>,
   <<"u", "p", "d", "a", "t", "e", "_", "u", "s", "e", "r">>,
   <<"l", "i", "s", "t", "_", "t", "i", "c", "k", "e", "t", "s">>,
   <<"g", "e", "t", "_", "t", "i", "c", "k", "e", "t">>,
   <<"s", "e", "a", "r", "c", "h">>,
   <<"s", "u", "p", "p", "o", "r", "t", "_", "i", "n", "f", "o">>,
   <<"l", "i", "s", "t", "_", "r", "i", "s", "k", "y", "_", "t", "o", "o", "l", "s">>,
   <<"g", "e", "t", "_", "t", "a", "l", "k", "_", "s", "t", "a", "t", "s">>,
   <<>>,
   <<"c", "r", "e", "a", "t", "e", "_">>,
   <<"u", "p", "d", "a", "t", "e", "_">>,
   <<"d", "e", "l", "e", "t", "e", "_">>,
   <<"c", "r", "e", "a", "t", "e">>,
   <<"d", "e", "l", "e", "t", "e">>,
   <<"u", "p", "d", "a", "t">>,
   <<"C", "r", "e", "a", "t", "e", "_", "t", "i", "c", "k", "e", "t">>,
   <<"D", "E", "L", "E", "T", "E", "_", "u", "s", "e", "r">>,
   <<"r", "e", "c", "r", "e", "a", "t", "e", "_", "i", "n", "d", "e", "x">>,
   <<"x", "_", "d", "e", "l", "e", "t", "e", "_", "y">>,
   <<"b", "u", "l", "k", "_", "u", "p", "d", "a", "t", "e", "_", "u", "s", "e", "r", "s">>,
   <<"_", "c", "r", "e", "a", "t", "e", "_", "x">>,
   <<"d", "e", "l", "e", "t", "e", "_", "c", "r", "e", "a", "t", "e", "_", "x">>,
   <<"c", "r", "e", "a", "t", "e", "_", "d", "e", "l", "e", "t", "e", "_", "x">>,
   <<"u", "p", "d", "a", "t", "e", "_", "d", "e", "l", "e", "t", "e", "_", "x">>,
   <<"c", "r", "e", "a", "t", "e", "s", "_", "t", "i", "c", "k", "e", "t">>,
   <<" ", "d", "e", "l", "e", "t", "e", "_", "x">>}

Descriptions ==
  {"", "List tickets", "Create a new ticket", "Delete a ticket"}

\* allTools.forEach(tool => { const riskInfo = getToolRiskInfo(tool.name,
\* tool.description) ... }): one tool is classified
Classify(toolName, description) ==
  /\ result' = [kind |-> "risk", toolName |-> toolName,
                description |-> description,
                info |-> getToolRiskInfo(toolName, description)]
  /\ last' = ToolEvent
  /\ UNCHANGED <<MCP_AUTH_TOKEN, credentials, frame, httpLog, sessionVars,
                 uuidCounter, now, inflight>>

\* the support tools module has its own copy of isRiskyTool
supportIsRiskyTool(toolName) ==
  \E i \in 1..Len(riskyPatterns) : Test(riskyPatterns[i], toolName)

\* a level function that takes update_ tools for harmless
RiskLevelUpdateSafe(toolName) ==
  IF StartsWith(toolName, DeletePrefix) THEN "HIGH RISK"
  ELSE IF StartsWith(toolName, CreatePrefix) THEN "MODERATE RISK"
  ELSE "SAFE"

\* getToolRiskLevel of the support tools module
getToolRiskLevel(toolName) ==
  IF StartsWith(toolName, DeletePrefix) THEN "HIGH RISK"
  ELSE IF StartsWith(toolName, CreatePrefix) \/ StartsWith(toolName, UpdatePrefix)
    THEN "MODERATE RISK"
  ELSE "SAFE"

\* The label of one tool at each place that shows it: the description
\* prefix given at registration, the list a zendesk://tools resource puts
\* it in (riskyTools with riskInfo.riskLevel, or safeTools), the list
\* list_risky_tools / list_safe_tools put it in, and GET /tools.
Surface(toolName, description) ==
  LET riskInfo == getToolRiskInfo(toolName, description)
  IN
  /\ result' =
       [kind |-> "labels", toolName |-> toolName, description |-> description,
        registration |-> riskInfo.prefix,
        resource |-> IF riskInfo.isRisky THEN riskInfo.riskLevel ELSE "SAFE",
        listing |-> IF supportIsRiskyTool(toolName)
                      THEN getToolRiskLevel(toolName) ELSE "SAFE",
        endpoint |-> getToolRiskInfo(toolName, description).riskLevel]
  /\ last' = ToolEvent
  /\ UNCHANGED <<MCP_AUTH_TOKEN, credentials, frame, httpLog, sessionVars,
                 uuidCounter, now, inflight>>

\* ------------------------------------------------ the tool-safety views
\* tool.name of every registered tool as the characters the patterns test
Spelling ==
  ("list_tickets" :>
     <<"l", "i", "s", "t", "_", "t", "i", "c", "k", "e", "t", "s">>) @@
  ("list_ticket_comments" :>
     <<"l", "i", "s", "t", "_", "t", "i", "c", "k", "e", "t", "_", "c", "o", "m", "m", "e", "n", "t", "s">>) @@
  ("count_ticket_comments" :>
     <<"c", "o", "u", "n", "t", "_", "t", "i", "c", "k", "e", "t", "_", "c", "o", "m", "m", "e", "n", "t", "s">>) @@
  ("get_ticket_comment" :>
     <<"g", "e", "t", "_", "t", "i", "c", "k", "e", "t", "_", "c", "o", "m", "m", "e", "n", "t">>) @@
  ("create_ticket" :>
     <<"c", "r", "e", "a", "t", "e", "_", "t", "i", "c", "k", "e", "t">>) @@
  ("update_ticket" :>
     <<"u", "p", "d", "a", "t", "e", "_", "t", "i", "c", "k", "e", "t">>) @@
  ("list_users" :>
     <<"l", "i", "s", "t", "_", "u", "s", "e", "r", "s">>) @@
  ("get_user" :>
     <<"g", "e", "t", "_", "u", "s", "e", "r">>) @@
  ("create_user" :>
     <<"c", "r", "e", "a", "t", "e", "_", "u", "s", "e", "r">>) @@
  ("update_user" :>
     <<"u", "p", "d", "a", "t", "e", "_", "u", "s", "e", "r">>) @@
  ("list_organizations" :>
     <<"l", "i", "s", "t", "_", "o", "r", "g", "a", "n", "i", "z", "a", "t", "i", "o", "n", "s">>) @@
  ("get_organization" :>
     <<"g", "e", "t", "_", "o", "r", "g", "a", "n", "i", "z", "a", "t", "i", "o", "n">>) @@
  ("create_organization" :>
     <<"c", "r", "e", "a", "t", "e", "_", "o", "r", "g", "a", "n", "i", "z", "a", "t", "i", "o", "n">>) @@
  ("update_organization" :>
     <<"u", "p", "d", "a", "t", "e", "_", "o", "r", "g", "a", "n", "i", "z", "a", "t", "i", "o", "n">>) @@
  ("list_groups" :>
     <<"l", "i", "s", "t", "_", "g", "r", "o", "u", "p", "s">>) @@
  ("get_group" :>
     <<"g", "e", "t", "_", "g", "r", "o", "u", "p">>) @@
  ("create_group" :>
     <<"c", "r", "e", "a", "t", "e", "_", "g", "r", "o", "u", "p">>) @@
  ("update_group" :>
     <<"u", "p", "d", "a", "t", "e", "_", "g", "r", "o", "u", "p">>) @@
  ("list_macros" :>
     <<"l", "i", "s", "t", "_", "m", "a", "c", "r", "o", "s">>) @@
  ("get_macro" :>
     <<"g", "e", "t", "_", "m", "a", "c", "r", "o">>) @@
  ("create_macro" :>
     <<"c", "r", "e", "a", "t", "e", "_", "m", "a", "c", "r", "o">>) @@
  ("update_macro" :>
     <<"u", "p", "d", "a", "t", "e", "_", "m", "a", "c", "r", "o">>) @@
  ("delete_macro" :>
     <<"d", "e", "l", "e", "t", "e", "_", "m", "a", "c", "r", "o">>) @@
  ("list_views" :>
     <<"l", "i", "s", "t", "_", "v", "i", "e", "w", "s">>) @@
  ("get_view" :>
     <<"g", "e", "t", "_", "v", "i", "e", "w">>) @@
  ("create_view" :>
     <<"c", "r", "e", "a", "t", "e", "_", "v", "i", "e", "w">>) @@
  ("update_view" :>
     <<"u", "p", "d", "a", "t", "e", "_", "v", "i", "e", "w">>) @@
  ("list_triggers" :>
     <<"l", "i", "s", "t", "_", "t", "r", "i", "g", "g", "e", "r", "s">>) @@
  ("get_trigger" :>
     <<"g", "e", "t", "_", "t", "r", "i", "g", "g", "e", "r">>) @@
  ("create_trigger" :>
     <<"c", "r", "e", "a", "t", "e", "_", "t", "r", "i", "g", "g", "e", "r">>) @@
  ("update_trigger" :>
     <<"u", "p", "d", "a", "t", "e", "_", "t", "r", "i", "g", "g", "e", "r">>) @@
  ("list_automations" :>
     <<"l", "i", "s", "t", "_", "a", "u", "t", "o", "m", "a", "t", "i", "o", "n", "s">>) @@
  ("get_automation" :>
     <<"g", "e", "t", "_", "a", "u", "t", "o", "m", "a", "t", "i", "o", "n">>) @@
  ("create_automation" :>
     <<"c", "r", "e", "a", "t", "e", "_", "a", "u", "t", "o", "m", "a", "t", "i", "o", "n">>) @@
  ("update_automation" :>
     <<"u", "p", "d", "a", "t", "e", "_", "a", "u", "t", "o", "m", "a", "t", "i", "o", "n">>) @@
  ("search" :>
     <<"s", "e", "a", "r", "c", "h">>) @@
  ("list_articles" :>
     <<"l", "i", "s", "t", "_", "a", "r", "t", "i", "c", "l", "e", "s">>) @@
  ("get_article" :>
     <<"g", "e", "t", "_", "a", "r", "t", "i", "c", "l", "e">>) @@
  ("create_article" :>
     <<"c", "r", "e", "a", "t", "e", "_", "a", "r", "t", "i", "c", "l", "e">>) @@
  ("update_article" :>
     <<"u", "p", "d", "a", "t", "e", "_", "a", "r", "t", "i", "c", "l", "e">>) @@
  ("delete_article" :>
     <<"d", "e", "l", "e", "t", "e", "_", "a", "r", "t", "i", "c", "l", "e">>) @@
  ("get_talk_stats" :>
     <<"g", "e", "t", "_", "t", "a", "l", "k", "_", "s", "t", "a", "t", "s">>) @@
  ("list_chats" :>
     <<"l", "i", "s", "t", "_", "c", "h", "a", "t", "s">>) @@
  ("list_risky_tools" :>
     <<"l", "i", "s", "t", "_", "r", "i", "s", "k", "y", "_", "t", "o", "o", "l", "s">>) @@
  ("list_safe_tools" :>
     <<"l", "i", "s", "t", "_", "s", "a", "f", "e", "_", "t", "o", "o", "l", "s">>) @@
  ("support_info" :>
     <<"s", "u", "p", "p", "o", "r", "t", "_", "i", "n", "f", "o">>) @@
  ("get_ticket" :>
     <<"g", "e", "t", "_", "t", "i", "c", "k", "e", "t">>) @@
  ("summarize_ticket_comments" :>
     <<"s", "u", "m", "m", "a", "r", "i", "z", "e", "_", "t", "i", "c", "k", "e", "t", "_", "c", "o", "m", "m", "e", "n", "t", "s">>)

\* createServer: allTools and its categorisation into riskyTools and
\* safeTools, kept as toolLists
toolLists ==
  [allTools |-> RegisteredTools,
   riskyTools |->
     {tool \in RegisteredTools : getToolRiskInfo(Spelling[tool], "").isRisky},
   safeTools |->
     {tool \in RegisteredTools : ~getToolRiskInfo(Spelling[tool], "").isRisky}]

\* getAllToolsExcludingMeta(): every tool array but supportTools, and a
\* placeholder for support_info
getAllToolsExcludingMeta == (RegisteredTools \ MetaTools) \cup {"support_info"}

NoCounts == [safe |-> 0, risky |-> 0, high |-> 0, moderate |-> 0, total |-> 0]

\* the callback of the tool_safety resource, zendesk://tools/{category}
tool_safety(category) ==
  IF category \in {"risky", "all"}
    THEN [listed |-> toolLists.riskyTools,
          counts |-> [NoCounts EXCEPT
                        !.risky = Cardinality(toolLists.riskyTools)]]
  ELSE IF category = "safe"
    THEN [listed |-> toolLists.safeTools,
          counts |-> [NoCounts EXCEPT
                        !.safe = Cardinality(toolLists.safeTools)]]
  ELSE IF category = "summary"
    THEN [listed |-> {},
          counts |-> [NoCounts EXCEPT
                        !.safe = Cardinality(toolLists.safeTools),
                        !.risky = Cardinality(toolLists.riskyTools),
                        !.total = Cardinality(toolLists.allTools)]]
  ELSE [listed |-> {}, counts |-> NoCounts]

\* the handler of list_risky_tools
list_risky_tools(category) ==
  LET allTools == getAllToolsExcludingMeta
      riskyTools == {tool \in allTools : supportIsRiskyTool(Spelling[tool])}
      safeTools == {tool \in allTools : ~supportIsRiskyTool(Spelling[tool])}
      Level(l) == {tool \in riskyTools : getToolRiskLevel(Spelling[tool]) = l}
      filteredRisky ==
        IF category = "high_risk" THEN Level("HIGH RISK")
        ELSE IF category = "moderate_risk" THEN Level("MODERATE RISK")
        ELSE riskyTools
  IN [listed |-> filteredRisky,
      counts |-> [NoCounts EXCEPT
                    !.safe = Cardinality(safeTools),
                    !.risky = Cardinality(riskyTools),
                    !.high = Cardinality(Level("HIGH RISK")),
                    !.moderate = Cardinality(Level("MODERATE RISK"))]]

\* the handler of list_safe_tools
list_safe_tools ==
  LET allTools == getAllToolsExcludingMeta
      safeTools == {tool \in allTools : ~supportIsRiskyTool(Spelling[tool])}
  IN [listed |-> safeTools,
      counts |-> [NoCounts EXCEPT !.safe = Cardinality(safeTools)]]

ResourceCategories == {"risky", "all", "safe", "summary", "other"}
ListCategories == {"all", "high_risk", "moderate_risk"}

\* one view is read: view names the tool or the resource, category its
\* argument
View(view, category, content) ==
  /\ result' = [kind |-> view, category |-> category,
                listed |-> content.listed, counts |-> content.counts]
  /\ last' = ToolEvent
  /\ UNCHANGED <<MCP_AUTH_TOKEN, credentials, frame, httpLog, sessionVars,
                 uuidCounter, now, inflight>>

ReadToolSafety(category) == View("tool_safety", category, tool_safety(category))
ListRiskyTools(category) ==
  View("list_risky_tools", category, list_risky_tools(category))
ListSafeTools == View("list_safe_tools", "all", list_safe_tools)

RiskNext ==
  \/ \E toolName \in ToolNames, description \in Descriptions :
        Classify(toolName, description)
  \/ \E toolName \in ToolNames, description \in Descriptions :
        Surface(toolName, description)
  \/ \E category \in ResourceCategories : ReadToolSafety(category)
  \/ \E category \in ListCategories : ListRiskyTools(category)
  \/ ListSafeTools

RiskSpec == Init /\ [][RiskNext]_vars

\* ===================================================================
\* Properties
\* ===================================================================
Keys == MapKeys(sessionServers)

\* what the claims call "the request is let through by authentication"
TokenConfigured == MCP_AUTH_TOKEN # Undefined /\ MCP_AUTH_TOKEN # <<>>
ExactBearer(req) == req.authorization = BearerPrefix \o MCP_AUTH_TOKEN
Authenticated(req) == ~TokenConfigured \/ ExactBearer(req)

\* the identifier a request carries or is assigned
IdentifierOf(req) ==
  IF req.sessionIdHeader = NoHeader THEN Uuid(uuidCounter + 1)
                                    ELSE req.sessionIdHeader

\* C1: no two distinct session identifiers in the session map share a server
\* instance or a transport instance, and every step that puts a new entry
\* into the map gives it a server and a transport allocated in that very
\* step, which no entry of the map, past or present, can refer to.
C1_NoSharing ==
  \A i, j \in 1..Len(sessionServers) :
    i # j =>
      /\ sessionServers[i].key # sessionServers[j].key
      /\ sessionServers[i].value.server # sessionServers[j].value.server
      /\ sessionServers[i].value.transport # sessionServers[j].value.transport

C1_FreshPair ==
  \A k \in MapKeys(sessionServers') :
    (~MapHas(sessionServers, k)
       \/ MapGet(sessionServers', k) # MapGet(sessionServers, k)) =>
      LET d == MapGet(sessionServers', k)
      IN /\ d.server \notin 1..Len(servers)
         /\ d.transport \notin 1..Len(transports)
         /\ d.server \in 1..Len(servers')
         /\ d.transport \in 1..Len(transports')

C1_Isolation == [](C1_NoSharing) /\ [][C1_FreshPair]_vars

C1_Witness ==
  /\ Len(sessionServers) = 2
  /\ last.op = "request" /\ last.created

\* C2: every request suspended in the transport dispatch under identifier X
\* runs on a transport that was created for X, and every entry of the
\* session map holds the transport that was created for its key.
C2_DispatchOwnTransport ==
  /\ \A r \in InFlight :
       /\ r.transport \in 1..Len(transports)
       /\ transports[r.transport].sessionId = r.sessionId
  /\ \A i \in 1..Len(sessionServers) :
       /\ sessionServers[i].value.transport \in 1..Len(transports)
       /\ transports[sessionServers[i].value.transport].sessionId =
            sessionServers[i].key

\* a request is in flight on the second transport while the first
\* transport belongs to another identifier and has left the map
C2_Witness ==
  /\ Len(transports) = 2
  /\ \E r \in InFlight :
       /\ r.transport = 2
       /\ transports[1].sessionId # r.sessionId
       /\ ~MapHas(sessionServers, transports[1].sessionId)

\* C3: the middleware lets a request through (the handler answers 405 to a
\* GET or dispatches the request) if and only if no token is configured or
\* the Authorization header is exactly "Bearer " followed by the token;
\* every other request is answered with status 401.  Checked for every
\* request that can produce a step of HandlerSpec.
C3_Step ==
  \A req \in Requests :
    McpRequest(req) =>
      IF Authenticated(req)
        THEN last'.status \in {0, 405}
        ELSE last'.status = 401
C3_AuthExactBearer == [][C3_Step]_vars

C3_Witness ==
  /\ TokenConfigured
  /\ last.op = "request" /\ last.status = 401

\* C4: a request rejected by authentication changes no session structure,
\* creates no server or transport and leaves the connection counter alone,
\* whatever identifier it carried.
C4_Step ==
  (last'.op = "request" /\ last'.status = 401) =>
    UNCHANGED <<sessionServers, sessionClientInfo, sessionTimestamps,
                activeConnections, connectionCounter, servers, transports,
                inflight, uuidCounter>>
C4_RejectedChangesNothing == [][C4_Step]_vars

\* a request was just rejected while a session exists
C4_Witness ==
  /\ last.op = "request" /\ last.status = 401
  /\ Len(sessionServers) > 0

\* ------------------------------------------------ get-or-create (C5, C6)
\* a step in which the handler reached the dispatch: the middleware called
\* next() and the request was not a GET
Dispatched == last'.op = "request" /\ last'.status = 0

\* a request step that the handler answered itself (401 or 405)
Answered == last'.op = "request" /\ last'.status # 0

\* the step suspended exactly one more handler, with frame f
Suspends(f) == inflight' = inflight (+) SetToBag({f})

\* the effects the claim C5 lists, for identifier id and the client c
CreatedFor(id, c) ==
  /\ Len(servers') = Len(servers) + 1
  /\ Len(transports') = Len(transports) + 1
  /\ SubSeq(servers', 1, Len(servers)) = servers
  /\ SubSeq(transports', 1, Len(transports)) = transports
  /\ transports'[Len(transports')].sessionId = id
  /\ servers'[Len(servers')].transport = Len(transports')
  /\ MapKeys(sessionServers') = Keys \cup {id}
  /\ MapKeys(sessionClientInfo') = MapKeys(sessionClientInfo) \cup {id}
  /\ MapKeys(sessionTimestamps') = MapKeys(sessionTimestamps) \cup {id}
  /\ MapGet(sessionServers', id) =
       [server |-> Len(servers'), transport |-> Len(transports')]
  /\ MapGet(sessionClientInfo', id) = c
  /\ MapGet(sessionTimestamps', id) = now
  /\ connectionCounter' = connectionCounter + 1
  /\ Suspends(Suspended(id, Len(transports')))

\* the claim C5 as written: every authenticated /mcp request whose
\* identifier has no entry in the session map creates one pair, records the
\* client and the time, and is dispatched through the new transport.
C5_AsWritten ==
  [][\A req \in Requests :
       (Authenticated(req) /\ IdentifierOf(req) \notin Keys /\ McpRequest(req))
         => CreatedFor(IdentifierOf(req), req.clientInfo)]_vars

\* C5 (amended): when an authenticated /mcp request other than a GET carries
\* or is assigned an identifier with no entry in the session map, exactly
\* one new server and one new transport are created and connected, the
\* client metadata and the creation time are recorded, the entry is in the
\* map under that identifier when the request is dispatched through the new
\* transport, and the connection counter grows by exactly one; a request
\* the handler answers itself (401, or 405 to a GET) creates nothing.
C5_Step ==
  /\ Dispatched =>
       \E f \in BagToSet(inflight') :
         /\ Suspends(f)
         /\ f.sessionId \notin Keys => CreatedFor(f.sessionId, last'.clientInfo)
  /\ Answered => UNCHANGED <<sessionVars, inflight>>
C5_CreateOnFirstContact == [][C5_Step]_vars

\* the server has just created a session under an identifier it generated
\* itself, at a time after the start, next to an older session
C5_Witness ==
  /\ last.op = "request" /\ last.status = 0 /\ last.created
  /\ Len(sessionServers) = 2
  /\ sessionServers[2].key = Uuid(uuidCounter)
  /\ MapGet(sessionTimestamps, Uuid(uuidCounter)) = now
  /\ now > 0

\* the claim C6 as written: every authenticated /mcp request whose
\* identifier has an entry in the session map creates nothing and is
\* dispatched through the transport of that entry.
C6_AsWritten ==
  [][\A req \in Requests :
       (Authenticated(req) /\ IdentifierOf(req) \in Keys /\ McpRequest(req))
         => /\ UNCHANGED sessionVars
            /\ Suspends(Suspended(IdentifierOf(req),
                                  MapGet(sessionServers,
                                         IdentifierOf(req)).transport))]_vars

\* C6 (amended): an authenticated /mcp request other than a GET that bears
\* an identifier with an entry in the session map creates no server and no
\* transport, leaves the server, transport, client metadata and created-at
\* timestamp of every entry and the connection counter as they were, whoever
\* sent it, and is dispatched through the transport of that entry.
C6_Step ==
  Dispatched =>
    \E f \in BagToSet(inflight') :
      /\ Suspends(f)
      /\ f.sessionId \in Keys =>
           /\ UNCHANGED sessionVars
           /\ f.transport = MapGet(sessionServers, f.sessionId).transport
C6_KnownCreatesNothing == [][C6_Step]_vars

\* a request for a known identifier was just dispatched, sent by a client
\* other than the one recorded at creation, at a later time
C6_Witness ==
  /\ last.op = "request" /\ last.status = 0 /\ ~last.created
  /\ \E i \in 1..Len(sessionClientInfo) :
       /\ sessionClientInfo[i].value # last.clientInfo
       /\ \E r \in InFlight :
            /\ r.sessionId = sessionClientInfo[i].key
            /\ MapGet(sessionServers, r.sessionId).transport = r.transport
            /\ MapGet(sessionTimestamps, r.sessionId) < now
  /\ Len(sessionServers) = 1

\* --------------------------------------------- session close (C7)
\* entry k of map m is in m2 with the same value
KeepsEntry(m, m2, k) == MapHas(m2, k) /\ MapGet(m2, k) = MapGet(m, k)

\* the step left every session other than X as it was, in every structure
OthersUntouched(X) ==
  /\ \A k \in MapKeys(sessionServers) \ {X} :
       KeepsEntry(sessionServers, sessionServers', k)
  /\ \A k \in MapKeys(sessionClientInfo) \ {X} :
       KeepsEntry(sessionClientInfo, sessionClientInfo', k)
  /\ \A k \in MapKeys(sessionTimestamps) \ {X} :
       KeepsEntry(sessionTimestamps, sessionTimestamps', k)
  /\ activeConnections' \ {X} = activeConnections \ {X}
  /\ MapKeys(sessionServers') \subseteq MapKeys(sessionServers)
  /\ MapKeys(sessionClientInfo') \subseteq MapKeys(sessionClientInfo)
  /\ MapKeys(sessionTimestamps') \subseteq MapKeys(sessionTimestamps)

\* identifier X is in none of the four structures after the step
Gone(X) ==
  /\ X \notin MapKeys(sessionServers')
  /\ X \notin MapKeys(sessionClientInfo')
  /\ X \notin MapKeys(sessionTimestamps')
  /\ X \notin activeConnections'

\* C7: when the transport of session X signals session-close, that step
\* removes X from the session map, the client-info map, the timestamp map
\* and the active-connection set, and leaves the entries of every other
\* session unchanged.
C7_Step ==
  \A r \in InFlight :
    OnSessionClosed(r) =>
      /\ Gone(transports[r.transport].sessionId)
      /\ OthersUntouched(transports[r.transport].sessionId)
C7_CloseRemovesOnlyX == [][C7_Step]_vars

\* a session was just closed, it was in the map and in the active set
\* before, and another session is still there
C7_Witness ==
  /\ last.op = "closed"
  /\ Len(sessionServers) = 1
  /\ Len(transports) = 2
  /\ sessionServers[1].key \in activeConnections
  /\ \E r \in InFlight :
       /\ transports[r.transport].initialized
       /\ r.sessionId # sessionServers[1].key
       /\ r.sessionId \notin activeConnections

\* --------------------------------------------- the sweep (C8, C9, C10)
Swept == last'.op = "sweep"

\* C8: right after a sweep pass run at time now, no session whose age
\* now - createdAt exceeds SESSION_TIMEOUT is left in the session map, the
\* client-info map, the timestamp map or the active-connection set: the
\* pass evicts every stale entry that was there when it started, and none
\* of the entries it leaves is stale.
C8_Step ==
  Swept =>
    /\ \A i \in 1..Len(sessionTimestamps) :
         now - sessionTimestamps[i].value > SESSION_TIMEOUT =>
           Gone(sessionTimestamps[i].key)
    /\ \A i \in 1..Len(sessionTimestamps') :
         now' - sessionTimestamps'[i].value <= SESSION_TIMEOUT
    /\ MapKeys(sessionServers') = MapKeys(sessionTimestamps')
    /\ MapKeys(sessionClientInfo') = MapKeys(sessionTimestamps')
C8_SweepEvictsAllStale == [][C8_Step]_vars

\* one pass has just evicted two sessions
C8_Witness ==
  /\ last.op = "sweep" /\ last.cleanedCount = 2
  /\ Len(sessionServers) = 0
  /\ now > SESSION_TIMEOUT

\* C9: a sweep pass leaves every session whose age at that time is at most
\* SESSION_TIMEOUT (an age of exactly SESSION_TIMEOUT included) unchanged in
\* the session map, the client-info map, the timestamp map and the
\* active-connection set.
C9_Step ==
  Swept =>
    \A i \in 1..Len(sessionTimestamps) :
      LET k == sessionTimestamps[i].key
      IN now - sessionTimestamps[i].value <= SESSION_TIMEOUT =>
           /\ KeepsEntry(sessionServers, sessionServers', k)
           /\ KeepsEntry(sessionClientInfo, sessionClientInfo', k)
           /\ KeepsEntry(sessionTimestamps, sessionTimestamps', k)
           /\ (k \in activeConnections') = (k \in activeConnections)
C9_SweepSparesYoung == [][C9_Step]_vars

\* a pass has just run over an active session aged exactly SESSION_TIMEOUT,
\* and the session is still there
C9_Witness ==
  /\ last.op = "sweep"
  /\ \E i \in 1..Len(sessionTimestamps) :
       /\ now - sessionTimestamps[i].value = SESSION_TIMEOUT
       /\ MapHas(sessionServers, sessionTimestamps[i].key)
       /\ sessionTimestamps[i].key \in activeConnections

\* C10: no request changes the created-at timestamp of a session that
\* exists, and a sweep evicts every session with now - createdAt >
\* SESSION_TIMEOUT whether or not requests to it are in progress: traffic
\* does not postpone the eviction.
C10_Step ==
  /\ last'.op = "request" =>
       \A k \in MapKeys(sessionTimestamps) :
         KeepsEntry(sessionTimestamps, sessionTimestamps', k)
  /\ Swept =>
       \A r \in InFlight :
         (/\ MapHas(sessionTimestamps, r.sessionId)
          /\ now - MapGet(sessionTimestamps, r.sessionId) > SESSION_TIMEOUT)
           => Gone(r.sessionId)
C10_AgeNotIdleTime == [][C10_Step]_vars

\* a sweep has just evicted a session that has two requests in progress,
\* the second of which reached it as an existing session
C10_Witness ==
  /\ last.op = "sweep" /\ last.cleanedCount = 1
  /\ \E r \in InFlight :
       /\ CopiesIn(r, inflight) = 2
       /\ ~MapHas(sessionServers, r.sessionId)
       /\ ~MapHas(sessionTimestamps, r.sessionId)

\* --------------------------------------------- bounded lifetime (C11)
\* every identifier the model can put into the session map
AllIds == ClientIds \cup {Uuid(n) : n \in 1..MaxUuid}

\* C11: with a timer that fires every CLEANUP_INTERVAL and a clock that
\* advances, every session that enters the session map eventually leaves
\* it, closed by its client or not, and no entry of the session map is ever
\* older than SESSION_TIMEOUT + CLEANUP_INTERVAL.
C11_NoEntryOlderThanBound ==
  \A k \in Keys :
    /\ MapHas(sessionTimestamps, k)
    /\ now - MapGet(sessionTimestamps, k) <= SESSION_TIMEOUT + CLEANUP_INTERVAL
C11_BoundedLifetime ==
  /\ \A id \in AllIds : (id \in Keys) ~> (id \notin Keys)
  /\ [](C11_NoEntryOlderThanBound)

\* a session that was created at the instant of a timer tick and was
\* never initialized nor closed is exactly SESSION_TIMEOUT + CLEANUP_INTERVAL
\* old, and the sweep that evicts it is due
C11_Witness ==
  /\ TimerDue
  /\ \E k \in Keys :
       /\ now - MapGet(sessionTimestamps, k) = SESSION_TIMEOUT + CLEANUP_INTERVAL
       /\ k \notin activeConnections

\* --------------------------------------------- GET on /mcp (C12)
\* the request was resolved to the session of its identifier and suspended
\* in the dispatch through the transport of that session
DispatchedToSession(id) ==
  /\ last'.status = 0
  /\ MapHas(sessionServers', id)
  /\ Suspends(Suspended(id, MapGet(sessionServers', id).transport))

\* the claim C12 as written: an authenticated GET /mcp is resolved to a
\* session (found or created) and dispatched through its transport.
C12_AsWritten ==
  [][\A req \in Requests :
       (Authenticated(req) /\ req.method = "GET" /\ McpRequest(req))
         => DispatchedToSession(IdentifierOf(req))]_vars

\* C12 (amended): only requests other than GET are session-scoped protocol
\* traffic.  An authenticated POST /mcp is resolved to a session (looked up
\* by its mcp-session-id header or created) and dispatched through that
\* session's transport; an authenticated GET /mcp is answered 405, is
\* resolved to no session, creates none and is not dispatched.
C12_Step ==
  \A req \in Requests :
    (Authenticated(req) /\ McpRequest(req)) =>
      IF req.method = "GET"
        THEN /\ last'.status = 405
             /\ UNCHANGED <<sessionVars, inflight>>
        ELSE DispatchedToSession(IdentifierOf(req))
C12_GetIsRefused == [][C12_Step]_vars

\* a GET was just answered 405 while a session exists and one request is
\* suspended in its transport
C12_Witness ==
  /\ last.op = "request" /\ last.status = 405
  /\ Len(sessionServers) = 1
  /\ BagCardinality(inflight) = 1

\* --------------------------------------------- handler errors (C13)
Running == frame.pc = "awaiting"
Finished == frame.pc = "done"

\* the message of the error that a settled axios call throws into the
\* handler, or that the handler runs into on a body of null
ThrownInto(outcome) ==
  IF outcome.kind = "2xx" THEN TypeErrorMessage
                          ELSE RequestSettle(outcome).message

C13_Step ==
  /\ last'.op = "tool" =>
        /\ frame'.pc \in {"awaiting", "done"}
        /\ frame'.pc = "done" =>
              /\ result'.kind = "payload"
              /\ result'.isError \in BOOLEAN
              /\ ~result'.isError => result'.text = <<frame'.tool, "result">>
        /\ frame'.session \in MapKeys(sessionServers) =>
              frame'.session \in MapKeys(sessionServers')
  /\ Rejected /\ frame'.pc = "done" /\ result'.isError =>
        Contains(result'.text, ConfigMessage)
  /\ \A outcome \in AllOutcomes :
        HttpResponse(outcome) /\ frame'.pc = "done" /\ result'.isError =>
          Contains(result'.text, ThrownInto(outcome))

\* C13: whatever the outcome of the client calls a handler makes (success,
\* configuration error, upstream non-2xx, transport error), the handler
\* ends by returning a payload, a success text or an isError payload whose
\* text contains the message of the error thrown; no exception leaves the
\* handler, and the invoking session stays in the session map.
C13_HandlersReturnPayloads ==
  /\ [][C13_Step]_vars
  /\ Running ~> Finished

\* an upstream 404 has been turned into an error payload for a session
\* that is still in the map
C13_Witness ==
  /\ Finished
  /\ result.isError
  /\ Contains(result.text, <<"Zendesk API Error: ", "404">>)
  /\ frame.session \in Keys
  /\ Len(httpLog) = 1

\* --------------------------------------------- missing credentials (C14)
CredentialNames == {"subdomain", "email", "apiToken"}
AnyUnset == \E k \in CredentialNames : credentials[k] = Undefined
AnyMissing == \E k \in CredentialNames : Falsy(credentials[k])
ConfigurationError ==
  /\ result.kind = "payload"
  /\ result.isError
  /\ Contains(result.text, ConfigMessage)

\* C14 as written: with a credential unset, every registered tool returns
\* an error-flagged response that contains the configuration-error message.
C14_AsWritten == AnyUnset /\ Finished => ConfigurationError

\* C14: with a credential unset or empty, every registered tool that calls
\* the client returns an error-flagged response that contains the
\* configuration-error message, without any HTTP call; list_risky_tools,
\* list_safe_tools and support_info call no client operation and return
\* their normal payload.
C14_ClientToolsReportConfigError ==
  AnyMissing /\ Finished =>
    /\ httpLog = <<>>
    /\ frame.tool \notin MetaTools => ConfigurationError
    /\ frame.tool \in MetaTools => ~result.isError /\ frame.ops = <<>>

\* summarize_ticket_comments has answered with the configuration error
\* while only the e-mail address was unset
C14_Witness ==
  /\ Finished
  /\ credentials.email = Undefined
  /\ credentials.subdomain # Undefined
  /\ credentials.apiToken = <<"secret">>
  /\ frame.tool = "summarize_ticket_comments"
  /\ ConfigurationError

\* --------------------------------------------- one HTTP call (C15)
\* the number of axios calls issued for the i-th client operation
CallsFor(i) == Cardinality({j \in 1..Len(httpLog) : httpLog[j] = i})

\* C15: a client operation issues no HTTP call when a credential is
\* missing and exactly one otherwise; whatever the outcome of that call,
\* no second one is ever issued for the same operation.
C15_OneCallPerOperation ==
  /\ \A j \in 1..Len(httpLog) : httpLog[j] \in 1..Len(frame.ops)
  /\ \A i \in 1..Len(frame.ops) :
        CallsFor(i) = IF AnyMissing THEN 0 ELSE 1

\* list_tickets has returned after its one call failed to connect
C15_Witness ==
  /\ Finished
  /\ frame.tool = "list_tickets"
  /\ result.isError
  /\ Contains(result.text, <<"connect ECONNREFUSED">>)
  /\ Len(frame.ops) = 1
  /\ httpLog = <<1>>

\* --------------------------------------------- one operation (C16)
ListTools ==
  {"list_tickets", "list_ticket_comments", "list_users", "list_organizations",
   "list_groups", "list_macros", "list_views", "list_triggers",
   "list_automations", "list_articles", "list_chats", "list_risky_tools",
   "list_safe_tools"}
ManyCallTools == {"summarize_ticket_comments", "get_ticket"}

\* C16 as written: every handler other than summarize_ticket_comments and
\* get_ticket calls exactly one client operation per invocation.
C16_AsWritten ==
  Finished /\ frame.tool \notin ManyCallTools => Len(frame.ops) = 1

\* C16: every handler other than summarize_ticket_comments, get_ticket and
\* the three tool-listing tools calls exactly one client operation per
\* invocation, the first thing it does, and a list_* handler never asks
\* for a further page; list_risky_tools, list_safe_tools and support_info
\* call none.
C16_OneOperationPerHandler ==
  /\ frame.tool \in RegisteredTools \ (ManyCallTools \cup MetaTools) =>
        /\ Len(frame.ops) = 1
        /\ Len(httpLog) <= 1
        /\ frame.ops[1].op = ToolOperation[frame.tool]
  /\ frame.tool \in MetaTools => frame.ops = <<>> /\ httpLog = <<>>
  /\ frame.tool \in ListTools => Len(httpLog) <= 1

\* list_tickets has returned one page after a single call
C16_Witness ==
  /\ Finished
  /\ frame.tool = "list_tickets"
  /\ ~result.isError
  /\ frame.ops = <<[op |-> "listTickets", data |-> <<>>]>>
  /\ httpLog = <<1>>

\* --------------------------------------------- update payloads (C17)
UpdateCalled == frame.tool \in UpdateTools /\ Len(frame.ops) >= 1
UpdatePayload == frame.ops[1].data
SuppliedFields == DOMAIN frame.args

\* C17 as written: the payload passed to the update operation holds exactly
\* the supplied fields, each with the supplied value.
C17_AsWritten ==
  UpdateCalled =>
    /\ DOMAIN UpdatePayload = SuppliedFields
    /\ \A f \in SuppliedFields : UpdatePayload[f] = frame.args[f]

\* what update_ticket leaves out although supplied: empty custom_fields
LeftOut ==
  IF /\ frame.tool = "update_ticket"
     /\ "custom_fields" \in SuppliedFields
     /\ frame.args["custom_fields"] = Arr(<<>>)
    THEN {"custom_fields"}
    ELSE {}

\* C17: for every update_* tool and every subset of its optional parameters,
\* a field the caller omitted is absent from the payload passed to the
\* update operation, and a supplied field is present with the supplied
\* value, except that update_ticket passes a supplied comment as
\* { body: comment } and leaves out custom_fields supplied as an empty array.
C17_PayloadHoldsSuppliedFields ==
  UpdateCalled =>
    /\ DOMAIN UpdatePayload = SuppliedFields \ LeftOut
    /\ \A f \in DOMAIN UpdatePayload :
          UpdatePayload[f] =
            IF frame.tool = "update_ticket" /\ f = "comment"
              THEN [body |-> frame.args[f]]
              ELSE frame.args[f]

\* update_ticket was called with a status, tags and an empty custom_fields
\* array, and the update went through
C17_Witness ==
  /\ Finished
  /\ ~result.isError
  /\ frame.tool = "update_ticket"
  /\ SuppliedFields = {"status", "tags", "custom_fields"}
  /\ frame.args["custom_fields"] = Arr(<<>>)
  /\ DOMAIN UpdatePayload = {"status", "tags"}
  /\ httpLog = <<1>>

\* --------------------------------------------- the comment cap (C18)
Summarizing == frame.tool = "summarize_ticket_comments"
DeclaredTotal == frame.locals.totalCount
GivenMax == Param(frame.args, "max_comments", DefaultMaxComments)
SettledPages == frame.locals.pages

\* the upstream serves the pages of the total it declared
ConsistentUpstream ==
  \A p \in 1..Len(SettledPages) :
    SettledPages[p] =
      IF DeclaredTotal - perPage * (p - 1) >= perPage THEN perPage
      ELSE IF DeclaredTotal - perPage * (p - 1) <= 0 THEN 0
      ELSE DeclaredTotal - perPage * (p - 1)

\* C18: for every upstream total T and every supplied max_comments M, the
\* number of comments that summarize_ticket_comments collects and returns
\* is at most min(T, M).
C18_AsWritten ==
  Summarizing /\ Finished /\ ~result.isError /\ ConsistentUpstream =>
    /\ result.fetched <= DeclaredTotal
    /\ result.fetched <= GivenMax

\* --------------------------------------------- the pagination loop (C19)
IsPageRequest(o) == o.op = "listTicketComments"
PageRequests == SelectSeq(frame.ops, IsPageRequest)
Paging == Running /\ frame.stage = "page"

C19_Pages ==
  Summarizing =>
    LET k == Len(PageRequests) IN
    /\ \A i \in 1..k :
          PageRequests[i].data = [per_page |-> 100, page |-> i]
    /\ k > 0 => /\ 100 * (k - 1) < DeclaredTotal
                /\ 100 * (k - 1) < GivenMax
    /\ DeclaredTotal = 0 => k = 0
    /\ \A i \in 1..Len(SettledPages) : SettledPages[i] < 100 => k = i

\* C19: the pagination loop of summarize_ticket_comments terminates; it
\* requests pages 1, 2, 3, ... in order with a page size of 100, at most
\* min(ceil(T/100), ceil(M/100)) of them for declared total T and
\* max_comments M (none when T = 0), and stops right after the first page
\* that returns fewer than 100 comments.
C19_PaginationTerminates ==
  /\ [](C19_Pages)
  /\ Paging ~> ~Paging

\* three pages were fetched for a total of 250, the last one short
C19_Witness ==
  /\ Summarizing
  /\ Finished
  /\ DeclaredTotal = 250
  /\ GivenMax = 250
  /\ SettledPages = <<100, 100, 50>>
  /\ Len(PageRequests) = 3

\* --------------------------------------------- risk classification (C20)
Classified == result.kind = "risk"

\* the level the claim gives a name
LevelByName(toolName) ==
  IF StartsWith(toolName, DeletePrefix) THEN "HIGH RISK"
  ELSE IF StartsWith(toolName, CreatePrefix) \/ StartsWith(toolName, UpdatePrefix)
    THEN "MODERATE RISK"
  ELSE "SAFE"

\* C20: the risk level depends on the tool name alone: HIGH RISK for a name
\* starting with delete_, MODERATE RISK for one starting with create_ or
\* update_, SAFE for every other name, whatever the description and
\* whatever was classified before; a tool is reported risky exactly when
\* its level is not SAFE.
C20_RiskByNamePrefix ==
  Classified =>
    /\ result.info.riskLevel = LevelByName(result.toolName)
    /\ result.info.isRisky <=> result.info.riskLevel # "SAFE"

\* a name that merely contains delete_ was classified SAFE although its
\* description speaks of deleting
C20_Witness ==
  /\ Classified
  /\ Contains(result.toolName, DeletePrefix)
  /\ ~StartsWith(result.toolName, DeletePrefix)
  /\ result.description = "Delete a ticket"
  /\ result.info.riskLevel = "SAFE"
  /\ ~result.info.isRisky

\* --------------------------------------------- one label everywhere (C21)
Surfaced == result.kind = "labels"

\* the level a description prefix announces
PrefixLevel(prefix) ==
  IF Len(prefix) = 3 THEN prefix[2] ELSE "SAFE"

\* C21: for every tool name, the label attached at registration (the
\* description prefix), the label of list_risky_tools, the label of the
\* zendesk://tools resource and the riskLevel of GET /tools are the same.
C21_SameLabelEverywhere ==
  Surfaced =>
    /\ PrefixLevel(result.registration) = result.listing
    /\ result.listing = result.resource
    /\ result.resource = result.endpoint

\* update_ticket carries MODERATE RISK at all four places
C21_Witness ==
  /\ Surfaced
  /\ StartsWith(result.toolName, UpdatePrefix)
  /\ result.registration = <<"! ", "MODERATE RISK", ": ">>
  /\ result.listing = "MODERATE RISK"
  /\ result.resource = "MODERATE RISK"
  /\ result.endpoint = "MODERATE RISK"

\* --------------------------------------------- the tool table (C22)
ServerOf(id) == servers[MapGet(sessionServers, id).server]

C22_FullTable ==
  \A id \in Keys :
    /\ ServerOf(id).tools = RegisteredTools
    /\ Cardinality(ServerOf(id).tools) = 48
    /\ ServerOf(id).resources = {"documentation", "tool_safety"}

C22_Fixed ==
  \A i \in 1..Len(servers) :
    /\ i <= Len(servers')
    /\ servers'[i].tools = servers[i].tools
    /\ servers'[i].resources = servers[i].resources

\* C22: every session in the session map has a server on which the full
\* static tool table and the two resources are registered; what is
\* registered never changes after creation and does not depend on the
\* sessions created, closed or evicted before.
C22_SameToolsEverySession ==
  /\ [](C22_FullTable)
  /\ [][C22_Fixed]_vars

\* a session created after another one was removed from the map
C22_Witness ==
  /\ Len(servers) = 2
  /\ Len(sessionServers) = 1
  /\ last.op = "request"
  /\ last.created
  /\ ServerOf(sessionServers[1].key).tools = RegisteredTools
  /\ \E i \in 1..Len(servers) :
        \A id \in Keys : MapGet(sessionServers, id).server # i

\* a request for id is suspended on the transport the map holds for id
SuspendedOn(id) ==
  MapHas(sessionServers, id)
    /\ BagIn(Suspended(id, MapGet(sessionServers, id).transport), inflight)

\* the step dispatched one more request for id
DispatchesFor(id) ==
  /\ Dispatched
  /\ \E t \in 1..Len(transports') : Suspends(Suspended(id, t))

\* a request for id that arrives while another request for id is suspended
\* in the dispatch creates nothing and is dispatched to the stored transport
C23_Reuses ==
  \A id \in Keys :
    SuspendedOn(id) /\ DispatchesFor(id) =>
      /\ servers' = servers
      /\ transports' = transports
      /\ sessionServers' = sessionServers
      /\ sessionClientInfo' = sessionClientInfo
      /\ sessionTimestamps' = sessionTimestamps
      /\ connectionCounter' = connectionCounter
      /\ Suspends(Suspended(id, MapGet(sessionServers, id).transport))

\* an identifier has one entry in the map, and as many pairs were created
\* as first contacts were counted
C23_OnePairEach ==
  /\ \A i, j \in 1..Len(sessionServers) :
       sessionServers[i].key = sessionServers[j].key => i = j
  /\ Len(servers) = connectionCounter
  /\ Len(transports) = connectionCounter

\* C23: under any interleaving of /mcp requests at the await on the
\* transport dispatch, requests that carry the same, so far unknown
\* identifier create and store exactly one server and transport pair for
\* it: the first request looks up, creates and inserts in one step, and a
\* later request that arrives while the first is suspended finds that entry
\* and is dispatched to the same transport.
C23_OneCreationPerIdentifier ==
  /\ [](C23_OnePairEach)
  /\ [][C23_Reuses]_vars

\* two requests for one client-chosen identifier are suspended on the same
\* transport, the only one ever created
C23_Witness ==
  /\ \E id \in ClientIds :
       /\ MapHas(sessionServers, id)
       /\ CopiesIn(Suspended(id, MapGet(sessionServers, id).transport),
                   inflight) = 2
  /\ Len(servers) = 1
  /\ Len(transports) = 1
  /\ connectionCounter = 1
  /\ last.op = "request"
  /\ ~last.created

\* C24: in every reachable state the three per-session maps have the same
\* key set, so together they are one map from session identifier to server,
\* transport, client metadata and creation time; this holds after any
\* sequence of session creations, session-close events and sweeps.
C24_OneSessionMap ==
  /\ MapKeys(sessionServers) = MapKeys(sessionClientInfo)
  /\ MapKeys(sessionClientInfo) = MapKeys(sessionTimestamps)
  /\ Len(sessionServers) = Len(sessionClientInfo)
  /\ Len(sessionClientInfo) = Len(sessionTimestamps)

\* a sweep has just evicted one session and left a younger one, which is
\* in all three maps
C24_Witness ==
  /\ last.op = "sweep"
  /\ last.cleanedCount = 1
  /\ Len(servers) = 2
  /\ Len(sessionServers) = 1
  /\ MapKeys(sessionClientInfo) = MapKeys(sessionServers)
  /\ MapKeys(sessionTimestamps) = MapKeys(sessionServers)

\* identifier X had a session once: a transport was created for it
HadSession(X) == \E t \in 1..Len(transports) : transports[t].sessionId = X

\* X had a session and has none now: it was closed or evicted
Removed(X) == HadSession(X) /\ X \notin Keys

\* the claim C25 as written: after session X was removed, every /mcp request
\* bearing X that passes authentication is treated as first contact.
C25_AsWritten ==
  [][\A req \in Requests :
       (Authenticated(req) /\ Removed(IdentifierOf(req)) /\ McpRequest(req))
         => CreatedFor(IdentifierOf(req), req.clientInfo)]_vars

\* every entry of the map after the step that refers to a server or a
\* transport that existed before the step was in the map before it, unchanged
NothingPutBack ==
  \A id \in MapKeys(sessionServers') :
    (\/ MapGet(sessionServers', id).server <= Len(servers)
     \/ MapGet(sessionServers', id).transport <= Len(transports))
      => id \in Keys /\ MapGet(sessionServers', id) = MapGet(sessionServers, id)

C25_Step ==
  /\ Dispatched =>
       \E f \in BagToSet(inflight') :
         /\ Suspends(f)
         /\ Removed(f.sessionId) =>
              /\ CreatedFor(f.sessionId, last'.clientInfo)
              /\ last'.created
              /\ f.transport > Len(transports)
  /\ Answered => UNCHANGED <<sessionVars, inflight>>
  /\ NothingPutBack

\* C25 (amended): after session X was removed by a session-close event or
\* by the sweep, the next authenticated /mcp request other than a GET that
\* bears X is treated as first contact: a new server and a new transport are
\* created, the current time and that request's client metadata are
\* recorded, and the connection counter is incremented; no step ever puts a
\* server or transport that left the map back into it.  A GET bearing X is
\* answered 405 and creates nothing.
C25_RemovedIsFirstContact == [][C25_Step]_vars

\* identifier X has just got its second pair: the first transport made for
\* X is out of the map, the entry of X holds the second
C25_Witness ==
  /\ last.op = "request" /\ last.status = 0 /\ last.created
  /\ Len(transports) = 2
  /\ transports[1].sessionId = transports[2].sessionId
  /\ MapGet(sessionServers, transports[2].sessionId) =
       [server |-> 2, transport |-> 2]
  /\ connectionCounter = 2

\* a request is suspended on a transport that the map no longer holds under
\* the identifier of the request: its session was closed or evicted
Orphaned(r) ==
  \/ ~MapHas(sessionServers, r.sessionId)
  \/ MapGet(sessionServers, r.sessionId).transport # r.transport

\* the step is the return of a suspended request
HandlerResumed ==
  last'.op = "return" /\ BagCardinality(inflight') < BagCardinality(inflight)

\* the step put identifier X into map m
Enters(m, m2, X) == ~MapHas(m, X) /\ MapHas(m2, X)

C26_Step ==
  /\ HandlerResumed =>
       /\ UNCHANGED sessionVars
       /\ \E r \in InFlight :
            /\ inflight' = inflight (-) SetToBag({r})
            /\ r.transport \in 1..Len(transports')
            /\ transports'[r.transport].sessionId = r.sessionId
  /\ \A X \in ClientIds \cup {Uuid(n) : n \in 1..MaxUuid} :
       (\/ Enters(sessionServers, sessionServers', X)
        \/ Enters(sessionClientInfo, sessionClientInfo', X)
        \/ Enters(sessionTimestamps, sessionTimestamps', X))
         => /\ last'.op = "request" /\ last'.created
            /\ MapGet(sessionServers', X).transport > Len(transports)

\* C26: when the sweep or a session-close event removes session X while a
\* request for X is suspended in the transport dispatch, the resumed handler
\* writes no session structure: it ends on the transport it holds, and X
\* stays out of the session map, the client-info map and the timestamp map
\* until a later request creates a new pair for X.
C26_NoReinsertOnResume == [][C26_Step]_vars

\* a request whose session was evicted by the sweep while it was suspended
\* has just returned, and its identifier is in no session structure (the
\* only transport ever made was never initialized, so it was never closed)
C26_Witness ==
  /\ last.op = "return"
  /\ Len(transports) = 1
  /\ Len(sessionServers) = 0
  /\ Len(sessionClientInfo) = 0
  /\ Len(sessionTimestamps) = 0
  /\ activeConnections = {}
  /\ BagCardinality(inflight) = 0
  /\ ~transports[1].initialized
  /\ now >= CLEANUP_INTERVAL

\* the step is the end of a handler run whose try block ended as outcome says
EndsWith(outcome) ==
  \/ \E r \in InFlight : RequestReturn(r, outcome)
  \/ \E req \in Requests : CreationThrows(req, outcome)

\* the try block threw before any response was started
ThrewUnanswered(outcome) == outcome.thrown /\ ~outcome.headersSent

\* the claim C27 as written: every error thrown by the creation or the
\* dispatch before a response was started is answered 500, and the handler
\* and the middleware answer with no error status other than 401 and 500.
C27_AsWritten ==
  /\ [][\A outcome \in Outcomes :
          EndsWith(outcome) /\ ThrewUnanswered(outcome) => last'.status = 500]_vars
  /\ [](last.status \in {0, 401, 500})

C27_Step ==
  \A outcome \in Outcomes :
    EndsWith(outcome) =>
      /\ ThrewUnanswered(outcome) /\ outcome.mentions400 => last'.status = 400
      /\ ThrewUnanswered(outcome) /\ ~outcome.mentions400 => last'.status = 500
      /\ ~ThrewUnanswered(outcome) => last'.status = 0

\* C27 (amended): an authenticated /mcp request whose session creation or
\* transport dispatch throws before any response was started is answered
\* with status 400 if the error message mentions '400' or 'Bad Request' and
\* with 500 otherwise; if the response was already started the catch block
\* answers nothing.  The error statuses of the /mcp handler and its
\* authentication middleware are 401, 405 (every authenticated GET), 400
\* and 500.
C27_CatchStatuses ==
  /\ [][C27_Step]_vars
  /\ [](last.status \in {0, 401, 405, 400, 500})
  /\ [](last.status \in {400, 500} => last.op \in {"request", "return"})
  /\ [](last.status \in {401, 405} => last.op = "request")

\* a dispatch has just failed with a message that mentions a bad request,
\* and the handler answered 400
C27_Witness ==
  /\ last.op = "return"
  /\ last.status = 400
  /\ Len(sessionServers) = 1

\* ------------------------------------- the status endpoints (C28, C29)
\* GET /metrics: the two gauges computed from the state
GetMetrics ==
  [zendesk_mcp_server_up |-> 1,
   zendesk_mcp_server_active_sessions |-> Cardinality(activeConnections),
   zendesk_mcp_server_total_connections |-> connectionCounter]

\* GET /connections: connections and memory of the JSON body (the clock
\* readings are left out)
GetConnections ==
  [connections |->
     [active |-> Cardinality(activeConnections),
      total |-> connectionCounter,
      sessions |->
        {[sessionId |-> sessionId,
          clientInfo |-> IF MapHas(sessionClientInfo, sessionId)
                           THEN MapGet(sessionClientInfo, sessionId)
                           ELSE NoClient,
          hasServerInstance |-> MapHas(sessionServers, sessionId)] :
           sessionId \in activeConnections}],
   memory |->
     [sessionInfoEntries |-> Len(sessionClientInfo),
      sessionServers |-> Len(sessionServers),
      sessionTimestamps |-> Len(sessionTimestamps)]]

\* C28: in every reachable state the number of active sessions reported by
\* GET /metrics and by GET /connections equals the number of entries in the
\* session map.
C28_AsWritten ==
  /\ GetMetrics.zendesk_mcp_server_active_sessions = Len(sessionServers)
  /\ GetConnections.connections.active = Len(sessionServers)

C30_AsWritten ==
  /\ result.kind = "list_risky_tools" /\ result.category = "all"
       => result.listed = tool_safety("risky").listed
  /\ result.kind = "list_safe_tools"
       => result.listed = tool_safety("safe").listed
  /\ result.kind = "list_risky_tools"
       => /\ result.counts.safe = tool_safety("summary").counts.safe
          /\ result.counts.risky = tool_safety("summary").counts.risky

====
